---- MODULE Spec2Model ----
(***************************************************************************)
(* Market curves, market copies, the CRR lattice pricer and the bump-and-   *)
(* revalue risk engine of the repository.                                   *)
(*                                                                          *)
(* Representation.  A C++ double is a fixed-point integer: the real x is    *)
(* the integer x * FP (FP = 10^4, so that the 0.0001 rate shock is 1).      *)
(* A Date is its serialNumber (every comparison and operator- of Date.cpp   *)
(* reads only the serial).  A std::shared_ptr is an address into `heap`;    *)
(* Null is the null pointer.  A std::map / unordered_map is a function      *)
(* whose DOMAIN is the set of keys present.                                 *)
(***************************************************************************)
EXTENDS Integers, Sequences, FiniteSets, TLC

\* ------------------------------------------------------------------ bounds
\* Most points (date, value) that the curves of one market hold together.
MaxPoints == 2
\* Largest step count N a lattice pricer is constructed with.
MaxSteps == 2

\* ------------------------------------------------------ fixed-point reals
FP == 10 ^ 4

Abs(x) == IF x < 0 THEN -x ELSE x

\* a * b and a / b on doubles.  The product is (a * b) \div FP, computed from
\* the whole and the fractional parts of a and b so that a * b itself needs
\* not fit into 32 bits.
Mul(a, b) ==
  (a \div FP) * (b \div FP) * FP + (a \div FP) * (b % FP) + (a % FP) * (b \div FP)
  + ((a % FP) * (b % FP)) \div FP
\* The quotient is (a * FP) \div b for b > 0, computed digit by digit in base
\* 100 so that a * FP itself needs not fit into 32 bits.
DivPositive(a, b) ==
  (a \div b) * FP + (((a % b) * 100) \div b) * 100 + ((((a % b) * 100) % b) * 100) \div b

Div(a, b) == IF b < 0 THEN DivPositive(-a, -b) ELSE DivPositive(a, b)

RECURSIVE ISqrtFrom(_, _, _)
ISqrtFrom(n, lo, hi) ==
  IF lo >= hi THEN lo
  ELSE LET mid == (lo + hi + 1) \div 2
       IN IF mid * mid <= n THEN ISqrtFrom(n, mid, hi) ELSE ISqrtFrom(n, lo, mid - 1)

\* std::sqrt on a non-negative double
Sqrt(x) == ISqrtFrom(x * FP, 0, 2 * FP)

RECURSIVE ExpSeries(_, _, _, _)
ExpSeries(x, k, term, acc) ==
  IF k > 8 \/ term = 0 THEN acc
  ELSE LET t == Mul(term, x) \div k
       IN ExpSeries(x, k + 1, t, acc + t)

\* std::exp
Exp(x) == ExpSeries(x, 1, FP, FP)

RECURSIVE Pow(_, _)
\* std::pow(b, n) for an integer exponent n >= 0
Pow(b, n) ==
  IF n = 0 THEN FP
  ELSE IF n % 2 = 0 /\ n > 2 THEN (LET half == Pow(b, n \div 2) IN Mul(half, half))
  ELSE Mul(Pow(b, n - 1), b)

\* ------------------------------------------------------------------ dates
\* Date::operator< and friends compare serialNumber; operator- is Act/365.
AsOf == 45000 + 292
YearsBetween(d1, d2) == ((d1 - d2) * FP) \div 365

\* ----------------------------------------------------------------- curves
Null == 0

EmptyRateCurve == [tenorDates |-> << >>, rates |-> << >>]
EmptyVolCurve == [tenors |-> << >>, vols |-> << >>]

\* std::lower_bound: the first index whose element is not less than x
LowerBound(s, x) ==
  IF \E i \in 1..Len(s) : s[i] >= x
  THEN CHOOSE i \in 1..Len(s) : s[i] >= x /\ \A j \in 1..(i - 1) : s[j] < x
  ELSE Len(s) + 1

\* std::vector::insert before position pos
InsertAt(s, pos, x) == SubSeq(s, 1, pos - 1) \o << x >> \o SubSeq(s, pos, Len(s))

\* An addRate that inserts without looking for the date.
RateCurve_addRate_AlwaysInsert(c, tenor, rate) ==
  LET it == LowerBound(c.tenorDates, tenor)
  IN [tenorDates |-> InsertAt(c.tenorDates, it, tenor),
      rates |-> InsertAt(c.rates, it, rate)]

RateCurve_addRate(c, tenor, rate) ==
  LET it == LowerBound(c.tenorDates, tenor)
  IN IF it <= Len(c.tenorDates) /\ c.tenorDates[it] = tenor
     THEN [c EXCEPT !.rates[it] = rate]
     ELSE [tenorDates |-> InsertAt(c.tenorDates, it, tenor),
           rates |-> InsertAt(c.rates, it, rate)]

VolCurve_addVol(c, tenor, vol) ==
  LET it == LowerBound(c.tenors, tenor)
  IN IF it <= Len(c.tenors) /\ c.tenors[it] = tenor
     THEN [c EXCEPT !.vols[it] = vol]
     ELSE [tenors |-> InsertAt(c.tenors, it, tenor),
           vols |-> InsertAt(c.vols, it, vol)]

\* An interpolation that weighs by the distance to the right knot.
linearInterpolate_FromRight(x0, y0, x1, y1, x) ==
  IF x1 = x0 THEN y0
  ELSE IF x <= x0 THEN y0
  ELSE IF x >= x1 THEN y1
  ELSE y0 + ((x1 - x) * (y1 - y0)) \div (x1 - x0)

\* imp::linearInterpolate; x0, x1, x are serial numbers, y0, y1 doubles
linearInterpolate(x0, y0, x1, y1, x) ==
  IF x1 = x0 THEN y0
  ELSE IF x <= x0 THEN y0
  ELSE IF x >= x1 THEN y1
  ELSE y0 + ((x - x0) * (y1 - y0)) \div (x1 - x0)

\* A getRate that reads the value one position before the date it found.
RateCurve_getRate_OffByOne(c, tenor) ==
  IF Len(c.tenorDates) = 0 THEN 0
  ELSE IF tenor <= c.tenorDates[1] THEN c.rates[1]
  ELSE IF ~(tenor < c.tenorDates[Len(c.tenorDates)]) THEN c.rates[Len(c.rates)]
  ELSE LET it == LowerBound(c.tenorDates, tenor)
       IN IF it <= Len(c.tenorDates) /\ c.tenorDates[it] = tenor THEN c.rates[it - 1]
          ELSE IF it = 1 THEN c.rates[1]
          ELSE linearInterpolate(c.tenorDates[it - 1], c.rates[it - 1],
                                 c.tenorDates[it], c.rates[it], tenor)

RateCurve_getRate(c, tenor) ==
  IF Len(c.tenorDates) = 0 THEN 0
  ELSE IF tenor <= c.tenorDates[1] THEN c.rates[1]
  ELSE IF ~(tenor < c.tenorDates[Len(c.tenorDates)]) THEN c.rates[Len(c.rates)]
  ELSE LET it == LowerBound(c.tenorDates, tenor)
       IN IF it <= Len(c.tenorDates) /\ c.tenorDates[it] = tenor THEN c.rates[it]
          ELSE IF it = 1 THEN c.rates[1]
          ELSE linearInterpolate(c.tenorDates[it - 1], c.rates[it - 1],
                                 c.tenorDates[it], c.rates[it], tenor)

\* A getVol that extends the last segment beyond the last knot.
VolCurve_getVol_Extrapolating(c, tenor) ==
  IF Len(c.tenors) = 0 THEN 0
  ELSE IF tenor <= c.tenors[1] THEN c.vols[1]
  ELSE IF ~(tenor < c.tenors[Len(c.tenors)])
       THEN IF Len(c.tenors) = 1 THEN c.vols[1]
            ELSE c.vols[Len(c.vols) - 1] +
                 ((tenor - c.tenors[Len(c.tenors) - 1]) * (c.vols[Len(c.vols)] - c.vols[Len(c.vols) - 1]))
                 \div (c.tenors[Len(c.tenors)] - c.tenors[Len(c.tenors) - 1])
  ELSE LET it == LowerBound(c.tenors, tenor)
       IN IF it <= Len(c.tenors) /\ c.tenors[it] = tenor THEN c.vols[it]
          ELSE IF it = 1 THEN c.vols[1]
          ELSE linearInterpolate(c.tenors[it - 1], c.vols[it - 1],
                                 c.tenors[it], c.vols[it], tenor)

VolCurve_getVol(c, tenor) ==
  IF Len(c.tenors) = 0 THEN 0
  ELSE IF tenor <= c.tenors[1] THEN c.vols[1]
  ELSE IF ~(tenor < c.tenors[Len(c.tenors)]) THEN c.vols[Len(c.vols)]
  ELSE LET it == LowerBound(c.tenors, tenor)
       IN IF it <= Len(c.tenors) /\ c.tenors[it] = tenor THEN c.vols[it]
          ELSE IF it = 1 THEN c.vols[1]
          ELSE linearInterpolate(c.tenors[it - 1], c.vols[it - 1],
                                 c.tenors[it], c.vols[it], tenor)

RateCurve_shock(c, shockValue) ==
  [c EXCEPT !.rates = [i \in DOMAIN c.rates |-> c.rates[i] + shockValue]]

VolCurve_shock(c, shockValue) ==
  [c EXCEPT !.vols = [i \in DOMAIN c.vols |-> c.vols[i] + shockValue]]

RateCurve_isEmpty(c) == Len(c.tenorDates) = 0
VolCurve_isEmpty(c) == Len(c.tenors) = 0

\* ----------------------------------------------------------------- market
\* An unordered_map with no key.
EmptyMap == [x \in {} |-> Null]

\* Market::Market(): no curves, no prices.
DefaultMarket ==
  [asOf |-> 1, name |-> "defaultMarket",
   curvesMap |-> EmptyMap, volsMap |-> EmptyMap, stockPricesMap |-> EmptyMap]

\* Market::Market(const Date& now, const std::string& marketName)
NewMarket(now, marketName) ==
  [asOf |-> now, name |-> marketName,
   curvesMap |-> EmptyMap, volsMap |-> EmptyMap, stockPricesMap |-> EmptyMap]

\* The names under which the markets of the model hold curves; a curve made
\* for the caller's market is allocated at the position of its name, a curve
\* made by a copy after those positions.  (Which free address an allocation
\* returns is not observable.)
NameOrder == << "USD-SOFR", "USD_Yield_Curve", "VOL_CURVE_DEFAULT", "SPX_Vol_Curve" >>
Slot(name) == CHOOSE i \in 1..Len(NameOrder) : NameOrder[i] = name

\* The first free address at or after `from`.
FreeAddr(h, from) ==
  CHOOSE a \in from..(from + Cardinality(DOMAIN h)) :
    a \notin DOMAIN h /\ \A b \in from..(a - 1) : b \in DOMAIN h

\* std::make_shared inside a Market copy: the address of the new object
NewAddr(h) == FreeAddr(h, Len(NameOrder) + 1)

Market_addCurve(m, curveName, curve) ==
  [m EXCEPT !.curvesMap = (curveName :> curve) @@ @]

Market_addVolCurve(m, volCurveName, volCurve) ==
  [m EXCEPT !.volsMap = (volCurveName :> volCurve) @@ @]

Market_addStockPrice(m, stockName, price) ==
  [m EXCEPT !.stockPricesMap = (stockName :> price) @@ @]

Market_getStockPrice(m, stockName) ==
  IF stockName \in DOMAIN m.stockPricesMap THEN m.stockPricesMap[stockName] ELSE 0

\* Market::getCurve / getVolCurve of Market.cpp: the pointer, or nullptr
Market_getCurve(m, curveName) ==
  IF curveName \in DOMAIN m.curvesMap THEN m.curvesMap[curveName] ELSE Null

Market_getVolCurve(m, volCurveName) ==
  IF volCurveName \in DOMAIN m.volsMap THEN m.volsMap[volCurveName] ELSE Null

\* Market::getCurve / getVolCurve of Market.h, as Pricer.cpp calls them: the
\* curve by value, a default-constructed (empty) curve when the name is absent
MarketH_getCurve(m, h, name) ==
  IF Market_getCurve(m, name) # Null THEN h[Market_getCurve(m, name)] ELSE EmptyRateCurve

MarketH_getVolCurve(m, h, name) ==
  IF Market_getVolCurve(m, name) # Null THEN h[Market_getVolCurve(m, name)]
  ELSE EmptyVolCurve

\* for (pair : other.curvesMap) if (pair.second) map[pair.first] =
\* std::make_shared<Curve>(*pair.second);
RECURSIVE CloneCurves(_, _, _, _)
CloneCurves(src, keys, dst, h) ==
  IF keys = {} THEN [map |-> dst, heap |-> h]
  ELSE LET k == CHOOSE x \in keys : TRUE
       IN IF src[k] # Null
          THEN LET a == NewAddr(h)
               IN CloneCurves(src, keys \ {k}, (k :> a) @@ dst, (a :> h[src[k]]) @@ h)
          ELSE CloneCurves(src, keys \ {k}, dst, h)

\* A copy that shares the source's curve objects (the shared_ptrs are copied,
\* not the curves).
Market_Copy_Shallow(other, h) == [market |-> other, heap |-> h]

\* Market::Market(const Market& other) of Market.cpp
Market_Copy(other, h) ==
  LET c == CloneCurves(other.curvesMap, DOMAIN other.curvesMap, EmptyMap, h)
      v == CloneCurves(other.volsMap, DOMAIN other.volsMap, EmptyMap, c.heap)
  IN [market |-> [asOf |-> other.asOf, name |-> other.name,
                  curvesMap |-> c.map, volsMap |-> v.map,
                  stockPricesMap |-> other.stockPricesMap],
      heap |-> v.heap]

\* Market::operator= of Market.cpp (self-assignment returns *this unchanged)
Market_Assign(self, other, isSelf, h) ==
  IF isSelf THEN [market |-> self, heap |-> h] ELSE Market_Copy(other, h)

\* Market::Market(const Market& other) of Market.h: asOf and name only; the
\* four maps are not named in the initializer list and start empty
MarketH_Copy(other, h) ==
  [market |-> [asOf |-> other.asOf, name |-> other.name,
               curvesMap |-> EmptyMap, volsMap |-> EmptyMap,
               stockPricesMap |-> EmptyMap],
   heap |-> h]

\* Market::operator= of Market.h: the maps hold curves by value, so the
\* assignment of the maps copies every curve
MarketH_Assign(self, other, isSelf, h) ==
  IF isSelf THEN [market |-> self, heap |-> h] ELSE Market_Copy(other, h)

\* The addresses a market's maps point to.
Pointees(m) ==
  ({m.curvesMap[k] : k \in DOMAIN m.curvesMap} \cup
   {m.volsMap[k] : k \in DOMAIN m.volsMap}) \ {Null}

\* shared_ptr ownership: an object no market points to any more is destroyed
Release(h, owners) ==
  LET live == UNION {Pointees(m) : m \in owners}
  IN [a \in (DOMAIN h) \cap live |-> h[a]]

\* What a market holds, by value: the points of each named curve and the
\* spot prices.
Contents(m, h) ==
  [curves |-> [k \in DOMAIN m.curvesMap |->
                 IF m.curvesMap[k] = Null THEN Null ELSE h[m.curvesMap[k]]],
   vols |-> [k \in DOMAIN m.volsMap |->
                 IF m.volsMap[k] = Null THEN Null ELSE h[m.volsMap[k]]],
   stocks |-> m.stockPricesMap]

\* ------------------------------------------------------ market decorators
\* A decorator whose marketDown is the original market itself, not a copy.
CurveDecorator_DownIsOriginal(original_market, shock, h) ==
  LET up == Market_Copy(original_market, h)
      curveToShockUp == Market_getCurve(up.market, shock.market_id)
      h1 == IF curveToShockUp # Null
            THEN [up.heap EXCEPT ![curveToShockUp] = RateCurve_shock(@, shock.shock_value)]
            ELSE up.heap
      curveToShockDown == Market_getCurve(original_market, shock.market_id)
      h2 == IF curveToShockDown # Null
            THEN [h1 EXCEPT ![curveToShockDown] = RateCurve_shock(@, -shock.shock_value)]
            ELSE h1
  IN [marketUp |-> up.market, marketDown |-> original_market, heap |-> h2]

\* CurveDecorator::CurveDecorator: marketUp(original), marketDown(original),
\* then the named rate curve of each is shocked by +shock and -shock
CurveDecorator(original_market, shock, h) ==
  LET up == Market_Copy(original_market, h)
      down == Market_Copy(original_market, up.heap)
      curveToShockUp == Market_getCurve(up.market, shock.market_id)
      h1 == IF curveToShockUp # Null
            THEN [down.heap EXCEPT ![curveToShockUp] = RateCurve_shock(@, shock.shock_value)]
            ELSE down.heap
      curveToShockDown == Market_getCurve(down.market, shock.market_id)
      h2 == IF curveToShockDown # Null
            THEN [h1 EXCEPT ![curveToShockDown] = RateCurve_shock(@, -shock.shock_value)]
            ELSE h1
  IN [marketUp |-> up.market, marketDown |-> down.market, heap |-> h2]

VolDecorator(original_market, shock, h) ==
  LET up == Market_Copy(original_market, h)
      down == Market_Copy(original_market, up.heap)
      volToShockUp == Market_getVolCurve(up.market, shock.market_id)
      h1 == IF volToShockUp # Null
            THEN [down.heap EXCEPT ![volToShockUp] = VolCurve_shock(@, shock.shock_value)]
            ELSE down.heap
      volToShockDown == Market_getVolCurve(down.market, shock.market_id)
      h2 == IF volToShockDown # Null
            THEN [h1 EXCEPT ![volToShockDown] = VolCurve_shock(@, -shock.shock_value)]
            ELSE h1
  IN [marketUp |-> up.market, marketDown |-> down.market, heap |-> h2]

\* ----------------------------------------------------------------- trades
\* A trade is a record; NullTrade is the null Trade pointer.
NullTrade == [kind |-> "null"]

\* A payoff whose Call case is the one of BinaryCall: 1.0 at or above the strike.
VanillaOption_CallAsBinary(optType, strike, S) ==
  CASE optType = "Call" -> IF S >= strike THEN FP ELSE 0
    [] optType = "Put" -> IF S < strike THEN strike - S ELSE 0
    [] optType = "BinaryCall" -> IF S >= strike THEN FP ELSE 0
    [] optType = "BinaryPut" -> IF S <= strike THEN FP ELSE 0
    [] OTHER -> 0

\* PAYOFF::VanillaOption
VanillaOption(optType, strike, S) ==
  CASE optType = "Call" -> IF S > strike THEN S - strike ELSE 0
    [] optType = "Put" -> IF S < strike THEN strike - S ELSE 0
    [] optType = "BinaryCall" -> IF S >= strike THEN FP ELSE 0
    [] optType = "BinaryPut" -> IF S <= strike THEN FP ELSE 0
    [] OTHER -> 0

\* EuropeanOption::Payoff / AmericanOption::Payoff
Payoff(trade, S) == VanillaOption(trade.optionType, trade.strike, S)

\* EuropeanOption::GetExpiry / AmericanOption::GetExpiry
GetExpiry(trade) == trade.expiryDate

\* An American ValueAtNode that exercises at every node: Payoff(S), the
\* continuation value ignored.
ValueAtNode_ExerciseAlways(trade, S, t, continuation) ==
  IF trade.kind = "AmericanOption" THEN Payoff(trade, S) ELSE continuation

\* EuropeanOption::ValueAtNode returns the continuation; AmericanOption::
\* ValueAtNode returns std::max(Payoff(S), continuation)
ValueAtNode(trade, S, t, continuation) ==
  IF trade.kind = "AmericanOption"
  THEN (IF Payoff(trade, S) > continuation THEN Payoff(trade, S) ELSE continuation)
  ELSE continuation

getRateCurveName(trade) == trade.discountCurveName
getVolCurveName(trade) == trade.volatilityCurveName

\* ----------------------------------------------------------------- pricer
\* A pricer object as constructed: its step count and the fixed risk-free
\* rate (negative: not set, the yield curve is read).
NoFixedRate == 0 - 1

\* std::abs(x) < 1e-14: below the resolution of the fixed-point doubles, so
\* the test holds for 0 only
Tiny(x) == Abs(x) < 1

\* The spot of node si of step ti.  PriceTree weights states[si] of the next
\* step with the up probability, so node si of step ti + 1 is the up child
\* of node si of step ti: ti - si up-moves and si down-moves from currentSpot.
GetSpot(m, ti, si) == Mul(Mul(m.currentSpot, Pow(m.u, ti - si)), Pow(m.d, si))

GetProbUp(m) == m.p
GetProbDown(m) == FP - m.p

\* The rate a lattice setup uses: the fixed rate when one is set, else the
\* value of "USD_Yield_Curve" at expiry, 0.0 when that curve is missing or empty
EffectiveRate(mkt, h, product, pr) ==
  IF pr.fixedRiskFreeRate_ >= 0 THEN pr.fixedRiskFreeRate_
  ELSE IF RateCurve_isEmpty(MarketH_getCurve(mkt, h, "USD_Yield_Curve")) THEN 0
  ELSE RateCurve_getRate(MarketH_getCurve(mkt, h, "USD_Yield_Curve"), GetExpiry(product))

\* CRRBinomialTreePricer::ModelSetup(const Market&, const TreeProduct&): the
\* members it leaves in the pricer, with the sigma and rate it read
ModelSetup(mkt, h, product, pr) ==
  LET S0 == Market_getStockPrice(mkt, product.underlying)
      sigma == VolCurve_getVol(MarketH_getVolCurve(mkt, h, "SPX_Vol_Curve"),
                               GetExpiry(product))
      T == YearsBetween(GetExpiry(product), mkt.asOf)
      dT == IF pr.nTimeSteps > 0 /\ T >= 0 THEN T \div pr.nTimeSteps ELSE 0
      u == Exp(Mul(sigma, Sqrt(dT)))
      d == Exp(Mul(-sigma, Sqrt(dT)))
      effectiveRate == EffectiveRate(mkt, h, product, pr)
      p0 == IF Tiny(u - d)
            THEN (IF Tiny(effectiveRate) /\ Tiny(sigma) THEN FP \div 2
                  ELSE IF effectiveRate >= 0 THEN FP ELSE 0)
            ELSE Div(Exp(Mul(effectiveRate, dT)) - d, u - d)
      p == IF p0 < 0 THEN 0 ELSE IF p0 > FP THEN FP ELSE p0
  IN [dT_ |-> dT, currentSpot |-> S0, u |-> u, d |-> d, p |-> p,
      Df_ |-> Exp(Mul(-effectiveRate, dT)),
      sigma |-> sigma, effectiveRate |-> effectiveRate]

\* A node loop that weights states[i] with the down probability and
\* states[i + 1] with the up probability.
RECURSIVE NodeLoop_WeightsSwapped(_, _, _, _, _, _)
NodeLoop_WeightsSwapped(states, m, trade, dt, k, i) ==
  IF i > k THEN states
  ELSE LET continuation ==
             Mul(m.Df_, Mul(states[i], GetProbDown(m)) + Mul(states[i + 1], GetProbUp(m)))
       IN NodeLoop_WeightsSwapped(
            [states EXCEPT ![i] = ValueAtNode(trade, GetSpot(m, k, i), dt * k, continuation)],
            m, trade, dt, k, i + 1)

\* A node loop that visits the nodes of a step in decreasing index: round i
\* computes node k - i, whose cell k - i + 1 the round before has overwritten.
RECURSIVE NodeLoop_Decreasing(_, _, _, _, _, _)
NodeLoop_Decreasing(states, m, trade, dt, k, i) ==
  IF i > k THEN states
  ELSE LET continuation ==
             Mul(m.Df_, Mul(states[k - i], GetProbUp(m))
                        + Mul(states[k - i + 1], GetProbDown(m)))
       IN NodeLoop_Decreasing(
            [states EXCEPT ![k - i] = ValueAtNode(trade, GetSpot(m, k, k - i), dt * k,
                                                  continuation)],
            m, trade, dt, k, i + 1)

\* for (i = 0; i <= k; i++) states[i] = ValueAtNode(GetSpot(k, i), dt * k,
\*   Df_ * (states[i] * GetProbUp() + states[i + 1] * GetProbDown()));
RECURSIVE NodeLoop(_, _, _, _, _, _)
NodeLoop(states, m, trade, dt, k, i) ==
  IF i > k THEN states
  ELSE LET continuation ==
             Mul(m.Df_, Mul(states[i], GetProbUp(m)) + Mul(states[i + 1], GetProbDown(m)))
       IN NodeLoop([states EXCEPT ![i] = ValueAtNode(trade, GetSpot(m, k, i), dt * k,
                                                    continuation)],
                   m, trade, dt, k, i + 1)

\* The inner loop of PriceTree stopped after node `last` of step k.
RECURSIVE NodeLoopTo(_, _, _, _, _, _, _)
NodeLoopTo(states, m, trade, dt, k, i, last) ==
  IF i > last THEN states
  ELSE LET continuation ==
             Mul(m.Df_, Mul(states[i], GetProbUp(m)) + Mul(states[i + 1], GetProbDown(m)))
       IN NodeLoopTo([states EXCEPT ![i] = ValueAtNode(trade, GetSpot(m, k, i), dt * k,
                                                      continuation)],
                     m, trade, dt, k, i + 1, last)

\* for (k = nTimeSteps - 1; k >= 0; k--) ...
RECURSIVE StepLoop(_, _, _, _, _)
StepLoop(states, m, trade, dt, k) ==
  IF k < 0 THEN states
  ELSE StepLoop(NodeLoop(states, m, trade, dt, k, 0), m, trade, dt, k - 1)

\* The outer loop of PriceTree stopped after step `last`: states[0..last] are
\* then the values of the nodes of step `last`.
RECURSIVE StepLoopTo(_, _, _, _, _, _)
StepLoopTo(states, m, trade, dt, k, last) ==
  IF k < last THEN states
  ELSE StepLoopTo(NodeLoop(states, m, trade, dt, k, 0), m, trade, dt, k - 1, last)

\* What a call returns when it returns no value.
NoValue == "none"

\* return trade.Payoff(mkt.getStockPrice(trade.getUnderlying())): no lattice
\* is set up and no curve is read
Intrinsic(mkt, trade) ==
  [value |-> Payoff(trade, Market_getStockPrice(mkt, trade.underlying)),
   raised |-> FALSE, setup |-> FALSE, m |-> NoValue, reads |-> {}]

\* std::cerr << "Error: Number of time steps ... must be positive."; return 0.0;
NoSteps == [value |-> 0, raised |-> FALSE, setup |-> FALSE, m |-> NoValue, reads |-> {}]

\* The lattice of PriceTree: ModelSetup, the payoffs at expiry, the backward
\* pass, return states[0]
Lattice(mkt, h, trade, pr) ==
  LET T == YearsBetween(GetExpiry(trade), mkt.asOf)
      dt == T \div pr.nTimeSteps
      m == ModelSetup(mkt, h, trade, pr)
      leaves == [i \in 0..pr.nTimeSteps |-> Payoff(trade, GetSpot(m, pr.nTimeSteps, i))]
      states == StepLoop(leaves, m, trade, dt, pr.nTimeSteps - 1)
  IN [value |-> states[0], raised |-> FALSE, setup |-> TRUE,
      m |-> m @@ [states |-> states],
      reads |-> {"SPX_Vol_Curve"} \cup
                (IF pr.fixedRiskFreeRate_ >= 0 THEN {} ELSE {"USD_Yield_Curve"})]

\* PriceTree without its test of T < 0: an instrument past its expiry goes on
\* to the step count test and the lattice.
PriceTree_NoExpiredTest(mkt, h, trade, pr) ==
  LET T == YearsBetween(GetExpiry(trade), mkt.asOf)
  IN IF T < 1 /\ T > -1 THEN Intrinsic(mkt, trade)
     ELSE IF pr.nTimeSteps <= 0 THEN NoSteps
     ELSE Lattice(mkt, h, trade, pr)

\* PriceTree returning the intrinsic value when the step count is not positive.
PriceTree_IntrinsicOnNoSteps(mkt, h, trade, pr) ==
  LET T == YearsBetween(GetExpiry(trade), mkt.asOf)
  IN IF T < 1 /\ T > -1 THEN Intrinsic(mkt, trade)
     ELSE IF T < 0 THEN Intrinsic(mkt, trade)
     ELSE IF pr.nTimeSteps <= 0 THEN Intrinsic(mkt, trade)
     ELSE Lattice(mkt, h, trade, pr)

\* CRRBinomialTreePricer::PriceTree: the value returned, whether the lattice
\* was set up, the members the call leaves in the pricer, and the rate and
\* volatility curves it read.  1e-6 of a year is below the resolution of the
\* fixed-point doubles: the first test holds for T = 0 only.
PriceTree(mkt, h, trade, pr) ==
  LET T == YearsBetween(GetExpiry(trade), mkt.asOf)
  IN IF T < 1 /\ T > -1 THEN Intrinsic(mkt, trade)
     ELSE IF T < 0 THEN Intrinsic(mkt, trade)
     ELSE IF pr.nTimeSteps <= 0 THEN NoSteps
     ELSE Lattice(mkt, h, trade, pr)

\* Pricer::Price.  A TreeProduct goes to PriceTree.  A null trade fails every
\* dynamic_cast and reaches trade->getType(): the null pointer is dereferenced,
\* after which the build either stops (crash) or goes on and returns pv = 0.0.
Price(mkt, h, trade, pr, ub) ==
  IF trade.kind \in {"EuropeanOption", "AmericanOption"}
  THEN PriceTree(mkt, h, trade, pr) @@ [deref |-> FALSE, crashed |-> FALSE]
  ELSE IF ub = "crash"
  THEN [value |-> NoValue, raised |-> FALSE, setup |-> FALSE, m |-> NoValue,
        reads |-> {}, deref |-> TRUE, crashed |-> TRUE]
  ELSE [value |-> 0, raised |-> FALSE, setup |-> FALSE, m |-> NoValue,
        reads |-> {}, deref |-> TRUE, crashed |-> FALSE]

\* ------------------------------------------------------------ risk engine
\* RiskEngine(double default_curve_shock_abs = 0.0001,
\*            double default_vol_shock_abs = 0.01)
defaultCurveShockAmount == 1
defaultVolShockAmount == 100

\* What computeDv01 / computeVega return before any pricing: an empty map.
NotApplicable(h) ==
  [result |-> EmptyMap, calls |-> 0, heap |-> h, priced |-> FALSE]

\* A local of a C++ function holds the value its initializer had: The({e(x) :
\* x \in {v}}) is e with the local x bound to the value of v.
The(S) == CHOOSE x \in S : TRUE

\* What a sensitivity call that priced returns: the one-entry result map, the
\* number of pricer calls, and the two shocked markets with the prices
\* obtained against them.
Sensitivity(name, shockedMarkets, pv_original, pv_up, pv_down) ==
  [result |-> (name :> ((pv_up.value - pv_down.value) \div 2)),
   calls |-> 3, heap |-> shockedMarkets.heap, priced |-> TRUE, key |-> name,
   marketUp |-> shockedMarkets.marketUp, marketDown |-> shockedMarkets.marketDown,
   pv_original |-> pv_original, pv_up |-> pv_up, pv_down |-> pv_down]

\* pv_original = pricer.Price(originalMarket, trade); pv_up = pricer.Price(
\* marketUp, trade); pv_down = pricer.Price(marketDown, trade);
\* results[name] = (pv_up - pv_down) / 2.0
BumpAndRevalue(name, trade, originalMarket, pr, shockedMarkets) ==
  The({Sensitivity(name, shockedMarkets, pv_original, pv_up, pv_down) :
         pv_original \in {Price(originalMarket, shockedMarkets.heap, trade, pr, "crash")},
         pv_up \in {Price(shockedMarkets.marketUp, shockedMarkets.heap, trade, pr, "crash")},
         pv_down \in {Price(shockedMarkets.marketDown, shockedMarkets.heap, trade, pr,
                            "crash")}})

\* computeDv01 without the tests of the curve name and of the curve's presence.
computeDv01_NoLookup(trade, originalMarket, h, pr) ==
  IF trade = NullTrade THEN NotApplicable(h)
  ELSE The({BumpAndRevalue(getRateCurveName(trade), trade, originalMarket, pr,
                           shockedMarkets) :
              shockedMarkets \in
                {CurveDecorator(originalMarket,
                                [market_id |-> getRateCurveName(trade),
                                 shock_value |-> defaultCurveShockAmount], h)}})

\* RiskEngine::computeDv01
computeDv01(trade, originalMarket, h, pr) ==
  IF trade = NullTrade THEN NotApplicable(h)
  ELSE IF getRateCurveName(trade) = "" THEN NotApplicable(h)
  ELSE IF Market_getCurve(originalMarket, getRateCurveName(trade)) = Null
  THEN NotApplicable(h)
  ELSE The({BumpAndRevalue(getRateCurveName(trade), trade, originalMarket, pr,
                           shockedMarkets) :
              shockedMarkets \in
                {CurveDecorator(originalMarket,
                                [market_id |-> getRateCurveName(trade),
                                 shock_value |-> defaultCurveShockAmount], h)}})

\* RiskEngine::computeVega
computeVega(trade, originalMarket, h, pr) ==
  IF trade = NullTrade THEN NotApplicable(h)
  ELSE IF getVolCurveName(trade) = "" THEN NotApplicable(h)
  ELSE IF Market_getVolCurve(originalMarket, getVolCurveName(trade)) = Null
  THEN NotApplicable(h)
  ELSE The({BumpAndRevalue(getVolCurveName(trade), trade, originalMarket, pr,
                           shockedVolMarkets) :
              shockedVolMarkets \in
                {VolDecorator(originalMarket,
                              [market_id |-> getVolCurveName(trade),
                               shock_value |-> defaultVolShockAmount], h)}})

\* ------------------------------------------------------------------ state
VARIABLES
  mkt,    \* the caller's market
  other,  \* a second Market object, the target of copies and assignments
  heap,   \* the curve objects that shared_ptrs point to
  ret,    \* the call whose result the caller has not yet taken: its
          \* arguments and what it returned; Void between calls
  pricer, \* the members of a pricer object on which two threads call Price
  calls   \* the call of each thread on that pricer: its arguments, its
          \* position in PriceTree, its locals and what it returned

vars == << mkt, other, heap, ret, pricer, calls >>

\* The threads that call Price on the one pricer object.
Threads == {1, 2}

\* CRRBinomialTreePricer(nSteps): the members of the object before any call
NewPricer(nSteps) ==
  [nTimeSteps |-> nSteps, fixedRiskFreeRate_ |-> NoFixedRate,
   dT_ |-> 0, currentSpot |-> 0, u |-> 0, d |-> 0, p |-> 0, Df_ |-> 0,
   states |-> [i \in 0..nSteps |-> 0]]

\* A thread that is not in a call.
NoCall == [pc |-> "idle"]

\* No thread is in a call on the shared pricer object, and none starts one.
Sequential == UNCHANGED << pricer, calls >>

\* ----------------------------------------------------------------- inputs
RateNames == {"USD-SOFR", "USD_Yield_Curve"}
VolNames == {"VOL_CURVE_DEFAULT", "SPX_Vol_Curve"}
KnotDates == {AsOf + 180, AsOf + 730}
RateValues == {5 * (FP \div 100)}
VolValues == {20 * (FP \div 100)}
StockNames == {"AAPL"}
StockPrices == {10 * FP}

Options ==
  [kind : {"EuropeanOption", "AmericanOption"},
   optionType : {"Call", "Put"},
   strike : {9 * FP, 11 * FP},
   expiryDate : {AsOf - 30, AsOf, AsOf + 365},
   underlying : StockNames,
   discountCurveName : {""} \cup RateNames,
   volatilityCurveName : {""} \cup VolNames]

\* The trades handed to Pricer::Price: options that name the default curves
\* of the option constructors, or the curves the pricer reads, and a null trade.
PriceTrades ==
  {t \in Options :
     << t.discountCurveName, t.volatilityCurveName >> \in
       {<< "USD-SOFR", "VOL_CURVE_DEFAULT" >>, << "USD_Yield_Curve", "SPX_Vol_Curve" >>}}
  \cup {NullTrade}

\* The trades handed to the risk engine: options at or before expiry that
\* name no curve, the default curves of the option constructors, or the
\* curves the pricer reads, and a null trade.
RiskTrades ==
  {t \in Options :
     /\ t.strike = 9 * FP
     /\ t.expiryDate >= AsOf
     /\ << t.discountCurveName, t.volatilityCurveName >> \in
          {<< "", "" >>, << "USD-SOFR", "VOL_CURVE_DEFAULT" >>,
           << "USD_Yield_Curve", "SPX_Vol_Curve" >>}}
  \cup {NullTrade}

\* CRRBinomialTreePricer(nSteps), with or without setFixedRiskFreeRate(0.04)
Pricers ==
  [nTimeSteps : {0 - 1, 0, MaxSteps}, fixedRiskFreeRate_ : {NoFixedRate}]
  \cup [nTimeSteps : {MaxSteps}, fixedRiskFreeRate_ : {4 * (FP \div 100)}]

\* The pricers handed to the risk engine.
RiskPricers == {pr \in Pricers : pr.nTimeSteps = MaxSteps}

RECURSIVE PointsIn(_, _)
PointsIn(h, addrs) ==
  IF addrs = {} THEN 0
  ELSE LET a == CHOOSE x \in addrs : TRUE
       IN (IF "rates" \in DOMAIN h[a] THEN Len(h[a].rates) ELSE Len(h[a].vols))
          + PointsIn(h, addrs \ {a})

TotalPoints(m, h) == PointsIn(h, Pointees(m))

Void == [op |-> "void"]

\* ------------------------------------------------------------------- Init
Init ==
  /\ mkt = NewMarket(AsOf, "test")
  /\ other = DefaultMarket
  /\ heap = EmptyMap
  /\ ret = Void
  /\ pricer = NewPricer(MaxSteps)
  /\ calls = [t \in Threads |-> NoCall]

\* ---------------------------------------------------------------- actions
\* mkt.addCurve(name, std::make_shared<RateCurve>(name)), once per name
AddCurve(name) ==
  /\ name \notin DOMAIN mkt.curvesMap
  /\ LET a == FreeAddr(heap, Slot(name))
     IN /\ mkt' = Market_addCurve(mkt, name, a)
        /\ heap' = (a :> EmptyRateCurve) @@ heap
  /\ UNCHANGED << other, ret >>

\* mkt.addVolCurve(name, std::make_shared<VolCurve>(name)), once per name
AddVolCurve(name) ==
  /\ name \notin DOMAIN mkt.volsMap
  /\ LET a == FreeAddr(heap, Slot(name))
     IN /\ mkt' = Market_addVolCurve(mkt, name, a)
        /\ heap' = (a :> EmptyVolCurve) @@ heap
  /\ UNCHANGED << other, ret >>

\* curve->addRate(d, v) on the curve that market m holds under `name`
AddRate(m, name, d, v) ==
  /\ Market_getCurve(m, name) # Null
  /\ LET a == Market_getCurve(m, name)
         h == [heap EXCEPT ![a] = RateCurve_addRate(@, d, v)]
     IN /\ TotalPoints(m, h) <= MaxPoints
        /\ heap' = h
  /\ UNCHANGED << mkt, other, ret >>

\* volCurve->addVol(d, v) on the curve that market m holds under `name`
AddVol(m, name, d, v) ==
  /\ Market_getVolCurve(m, name) # Null
  /\ LET a == Market_getVolCurve(m, name)
         h == [heap EXCEPT ![a] = VolCurve_addVol(@, d, v)]
     IN /\ TotalPoints(m, h) <= MaxPoints
        /\ heap' = h
  /\ UNCHANGED << mkt, other, ret >>

AddStockPrice(name, price) ==
  /\ mkt' = Market_addStockPrice(mkt, name, price)
  /\ UNCHANGED << other, heap, ret >>

\* The outcomes of undefined behaviour that a call on `trade` can meet.
Outcomes(trade) == IF trade = NullTrade THEN {"crash", "return"} ELSE {"defined"}

\* pricer.Price(mkt, trade)
CallPrice(trade, pr, ub) ==
  /\ ret' = [op |-> "Price", trade |-> trade, pr |-> pr,
             out |-> Price(mkt, heap, trade, pr, ub)]
  /\ UNCHANGED << mkt, other, heap >>

\* What the caller sees of a sensitivity call, with the two shocked markets
\* as the pricer saw them.
Observed(op, trade, pr, r) ==
  [op |-> op, trade |-> trade, pr |-> pr,
   result |-> r.result, calls |-> r.calls, priced |-> r.priced,
   detail |-> IF r.priced
              THEN [key |-> r.key,
                    up |-> Contents(r.marketUp, r.heap),
                    down |-> Contents(r.marketDown, r.heap),
                    pv_up |-> r.pv_up, pv_down |-> r.pv_down]
              ELSE NoValue]

\* riskEngine.computeDv01(trade, mkt, pricer); the decorator and its two
\* markets are destroyed when the call returns
CallComputeDv01(trade, pr) ==
  \E r \in {computeDv01(trade, mkt, heap, pr)} :
    /\ heap' = Release(r.heap, {mkt, other})
    /\ ret' = Observed("computeDv01", trade, pr, r)
    /\ UNCHANGED << mkt, other >>

\* riskEngine.computeVega(trade, mkt, pricer)
CallComputeVega(trade, pr) ==
  \E r \in {computeVega(trade, mkt, heap, pr)} :
    /\ heap' = Release(r.heap, {mkt, other})
    /\ ret' = Observed("computeVega", trade, pr, r)
    /\ UNCHANGED << mkt, other >>

\* The caller takes the result of the call; its next operation follows.
Return ==
  /\ ret # Void
  /\ ret' = Void
  /\ UNCHANGED << mkt, other, heap >>

\* The caller populates its market with curves of the given names.
BuildWith(rateNames, volNames) ==
  \/ \E name \in rateNames : AddCurve(name)
  \/ \E name \in volNames : AddVolCurve(name)
  \/ \E name \in rateNames, d \in KnotDates, v \in RateValues : AddRate(mkt, name, d, v)
  \/ \E name \in volNames, d \in KnotDates, v \in VolValues : AddVol(mkt, name, d, v)
  \/ \E name \in StockNames, price \in StockPrices : AddStockPrice(name, price)

Build == BuildWith(RateNames, VolNames)

\* ---------------------------------------------- the risk engine's callers
NextRisk ==
  \/ Sequential /\ ret = Void /\ Build
  \/ Sequential /\ ret = Void /\ \E trade \in RiskTrades, pr \in RiskPricers : CallComputeDv01(trade, pr)
  \/ Sequential /\ ret = Void /\ \E trade \in RiskTrades, pr \in RiskPricers : CallComputeVega(trade, pr)
  \/ Sequential /\ Return

SpecRisk == Init /\ [][NextRisk]_vars

\* --------------------------------------------------- the pricer's callers
NextPrice ==
  \/ Sequential /\ ret = Void /\ Build
  \/ Sequential /\ ret = Void /\ \E trade \in PriceTrades, pr \in Pricers :
                     \E ub \in Outcomes(trade) : CallPrice(trade, pr, ub)
  \/ Sequential /\ Return

SpecPrice == Init /\ [][NextPrice]_vars

\* ------------------------------------------------------- copies of markets
\* Market other(mkt), by the copy constructor of Market.cpp; the object that
\* `other` named before is gone
CopyConstruct ==
  LET c == Market_Copy(mkt, Release(heap, {mkt}))
  IN /\ other' = c.market
     /\ heap' = c.heap
     /\ ret' = [op |-> "copy", by |-> "Market.cpp copy constructor"]
     /\ UNCHANGED mkt

\* other = mkt, by operator= of Market.cpp: the maps are cleared, then filled
CopyAssign ==
  LET c == Market_Assign(other, mkt, FALSE, Release(heap, {mkt}))
  IN /\ other' = c.market
     /\ heap' = c.heap
     /\ ret' = [op |-> "copy", by |-> "Market.cpp operator="]
     /\ UNCHANGED mkt

\* Market other(mkt), by the copy constructor of Market.h
CopyConstructH ==
  LET c == MarketH_Copy(mkt, Release(heap, {mkt}))
  IN /\ other' = c.market
     /\ heap' = c.heap
     /\ ret' = [op |-> "copy", by |-> "Market.h copy constructor"]
     /\ UNCHANGED mkt

\* other = mkt, by operator= of Market.h
CopyAssignH ==
  LET c == MarketH_Assign(other, mkt, FALSE, Release(heap, {mkt}))
  IN /\ other' = c.market
     /\ heap' = c.heap
     /\ ret' = [op |-> "copy", by |-> "Market.h operator="]
     /\ UNCHANGED mkt

\* The values a curve may hold in the model: an input value, shocked at most
\* once up or down.
Near(values, amount) == {v + k * amount : v \in values, k \in {0 - 1, 0, 1}}

\* m.getCurve(name)->shock(amount)
ShockRate(m, name, amount) ==
  /\ Market_getCurve(m, name) # Null
  /\ LET a == Market_getCurve(m, name)
         c == RateCurve_shock(heap[a], amount)
     IN /\ ~RateCurve_isEmpty(c)
        /\ \A i \in DOMAIN c.rates : c.rates[i] \in Near(RateValues, defaultCurveShockAmount)
        /\ heap' = [heap EXCEPT ![a] = c]
  /\ UNCHANGED << mkt, other, ret >>

\* m.getVolCurve(name)->shock(amount)
ShockVol(m, name, amount) ==
  /\ Market_getVolCurve(m, name) # Null
  /\ LET a == Market_getVolCurve(m, name)
         c == VolCurve_shock(heap[a], amount)
     IN /\ ~VolCurve_isEmpty(c)
        /\ \A i \in DOMAIN c.vols : c.vols[i] \in Near(VolValues, defaultVolShockAmount)
        /\ heap' = [heap EXCEPT ![a] = c]
  /\ UNCHANGED << mkt, other, ret >>

\* The markets that are copied hold one rate curve and one volatility curve.
CopyRateNames == {"USD-SOFR"}
CopyVolNames == {"VOL_CURVE_DEFAULT"}

NextCopy ==
  \/ Sequential /\ ret = Void /\ BuildWith(CopyRateNames, CopyVolNames)
  \/ Sequential /\ ret = Void /\ CopyConstruct
  \/ Sequential /\ ret = Void /\ CopyAssign
  \/ Sequential /\ ret = Void /\ CopyConstructH
  \/ Sequential /\ ret = Void /\ CopyAssignH
  \/ Sequential /\ ret = Void /\ \E name \in CopyRateNames, d \in KnotDates, v \in RateValues :
                     AddRate(other, name, d, v)
  \/ Sequential /\ ret = Void /\ \E name \in CopyVolNames, d \in KnotDates, v \in VolValues :
                     AddVol(other, name, d, v)
  \/ Sequential /\ ret = Void /\ \E m \in {mkt, other}, name \in CopyRateNames,
                      amount \in {defaultCurveShockAmount, -defaultCurveShockAmount} :
                     ShockRate(m, name, amount)
  \/ Sequential /\ ret = Void /\ \E m \in {mkt, other}, name \in CopyVolNames,
                      amount \in {defaultVolShockAmount, -defaultVolShockAmount} :
                     ShockVol(m, name, amount)
  \/ Sequential /\ Return

SpecCopy == Init /\ [][NextCopy]_vars

\* ------------------------------------- two threads on one pricer object
\* A market of a given name that holds the spot of AAPL and, with one point
\* each a year after the as-of date, the two curves the pricer reads; its
\* curve objects are allocated in heap h.
QuotedMarket(marketName, spot, vol, rate, h) ==
  The({[market |->
          Market_addVolCurve(
            Market_addCurve(
              Market_addStockPrice(NewMarket(AsOf, marketName), "AAPL", spot),
              "USD_Yield_Curve", a[1]),
            "SPX_Vol_Curve", a[2]),
        heap |-> (a[1] :> RateCurve_addRate(EmptyRateCurve, AsOf + 365, rate))
                 @@ (a[2] :> VolCurve_addVol(EmptyVolCurve, AsOf + 365, vol)) @@ h] :
         a \in {<< NewAddr(h), NewAddr(h) + 1 >>}})

SharedSpots == {10 * FP}
SharedVols == {20 * (FP \div 100), 30 * (FP \div 100)}
SharedRates == {5 * (FP \div 100)}

\* The instruments the two threads price.
SharedTrades ==
  {t \in Options :
     /\ t.strike = 11 * FP
     /\ t.expiryDate >= AsOf
     /\ << t.discountCurveName, t.volatilityCurveName >> =
          << "USD_Yield_Curve", "SPX_Vol_Curve" >>}

\* Thread 1 prices against mkt, thread 2 against other: two markets that
\* share no curve object.
InitShared ==
  \E s1 \in SharedSpots, s2 \in SharedSpots, v1 \in SharedVols, v2 \in SharedVols,
     r1 \in SharedRates, r2 \in SharedRates :
    \E one \in {QuotedMarket("one", s1, v1, r1, EmptyMap)} :
      \E two \in {QuotedMarket("two", s2, v2, r2, one.heap)} :
        /\ mkt = one.market
        /\ other = two.market
        /\ heap = two.heap
        /\ ret = Void
        /\ pricer = NewPricer(MaxSteps)
        /\ calls = [t \in Threads |-> NoCall]

MarketOf(t) == IF t = 1 THEN mkt ELSE other

\* Thread t enters pricer.Price(MarketOf(t), trade) and PriceTree up to its
\* early returns: T and dt are locals of the call.
Begin(t, trade) ==
  /\ calls[t].pc = "idle"
  /\ \E T \in {YearsBetween(GetExpiry(trade), MarketOf(t).asOf)} :
       calls' = [calls EXCEPT ![t] =
                   IF (T < 1 /\ T > -1) \/ T < 0
                   THEN [pc |-> "done", trade |-> trade,
                         value |-> Intrinsic(MarketOf(t), trade).value]
                   ELSE IF pricer.nTimeSteps <= 0
                   THEN [pc |-> "done", trade |-> trade, value |-> NoSteps.value]
                   ELSE [pc |-> "ModelSetup", trade |-> trade,
                         dt |-> T \div pricer.nTimeSteps]]
  /\ UNCHANGED << mkt, other, heap, ret, pricer >>

\* ModelSetup(mkt, trade) of thread t: writes dT_, currentSpot, u, d, p and
\* Df_ of the pricer object
CallModelSetup(t) ==
  /\ calls[t].pc = "ModelSetup"
  /\ \E m \in {ModelSetup(MarketOf(t), heap, calls[t].trade, pricer)} :
       pricer' = [pricer EXCEPT !.dT_ = m.dT_, !.currentSpot = m.currentSpot,
                                !.u = m.u, !.d = m.d, !.p = m.p, !.Df_ = m.Df_]
  /\ calls' = [calls EXCEPT ![t].pc = "leaves"]
  /\ UNCHANGED << mkt, other, heap, ret >>

\* for (i = 0; i <= nTimeSteps; i++) states[i] = trade.Payoff(GetSpot(
\* nTimeSteps, i)), by thread t on the members as they are now
FillLeaves(t) ==
  /\ calls[t].pc = "leaves"
  /\ pricer' = [pricer EXCEPT !.states =
                  [i \in 0..pricer.nTimeSteps |->
                     Payoff(calls[t].trade, GetSpot(pricer, pricer.nTimeSteps, i))]]
  /\ calls' = [calls EXCEPT ![t] = [pc |-> "step", k |-> pricer.nTimeSteps - 1] @@ @]
  /\ UNCHANGED << mkt, other, heap, ret >>

\* One round k of the outer loop of PriceTree, by thread t
BackwardStep(t) ==
  /\ calls[t].pc = "step"
  /\ calls[t].k >= 0
  /\ pricer' = [pricer EXCEPT !.states =
                  NodeLoop(pricer.states, pricer, calls[t].trade, calls[t].dt,
                           calls[t].k, 0)]
  /\ calls' = [calls EXCEPT ![t].k = @ - 1]
  /\ UNCHANGED << mkt, other, heap, ret >>

\* return states[0], by thread t
ReturnRoot(t) ==
  /\ calls[t].pc = "step"
  /\ calls[t].k < 0
  /\ calls' = [calls EXCEPT ![t] = [pc |-> "done", trade |-> calls[t].trade,
                                    value |-> pricer.states[0]]]
  /\ UNCHANGED << mkt, other, heap, ret, pricer >>

\* Thread t takes the price; its next call may follow.
TakePrice(t) ==
  /\ calls[t].pc = "done"
  /\ calls' = [calls EXCEPT ![t] = NoCall]
  /\ UNCHANGED << mkt, other, heap, ret, pricer >>

NextShared ==
  \/ \E t \in Threads, trade \in SharedTrades : Begin(t, trade)
  \/ \E t \in Threads : CallModelSetup(t)
  \/ \E t \in Threads : FillLeaves(t)
  \/ \E t \in Threads : BackwardStep(t)
  \/ \E t \in Threads : ReturnRoot(t)
  \/ \E t \in Threads : TakePrice(t)

SpecShared == InitShared /\ [][NextShared]_vars

\* ================================================= claims on the risk engine
\* A sensitivity call has returned and the caller has not yet taken the result.
SensitivityReturned == ret.op \in {"computeDv01", "computeVega"}

\* The curve name a sensitivity call looks up: the instrument's rate curve
\* name for computeDv01, its volatility curve name for computeVega.
NamedCurve(r) ==
  IF r.op = "computeDv01" THEN r.trade.discountCurveName ELSE r.trade.volatilityCurveName

\* The caller's market holds a curve of the kind the call shocks under `name`.
HoldsCurve(r, name) ==
  IF r.op = "computeDv01" THEN name \in DOMAIN mkt.curvesMap ELSE name \in DOMAIN mkt.volsMap

\* The points of the named curve in the caller's market.
NamedPoints(r) ==
  IF r.op = "computeDv01" THEN heap[mkt.curvesMap[NamedCurve(r)]].rates
  ELSE heap[mkt.volsMap[NamedCurve(r)]].vols

\* C1: after any call of computeDv01 or computeVega, whatever the instrument
\* and whether the result is empty or not, every rate curve and volatility
\* curve of the caller's market has the same dates and values, and every spot
\* price is the same, as before the call.
C1_OriginalMarketUnchanged ==
  [][ret'.op \in {"computeDv01", "computeVega"} /\ ret = Void
       => Contents(mkt', heap') = Contents(mkt, heap)]_vars

\* A sensitivity was computed against shocked markets that differ from the
\* caller's market, which still holds its curve with points.
C1_Witness ==
  /\ SensitivityReturned
  /\ ret.priced
  /\ ret.detail.up # Contents(mkt, heap)
  /\ ret.detail.down # Contents(mkt, heap)
  /\ ret.detail.up # ret.detail.down

\* The caller's market with every point of the curve named by call r moved by
\* `amount`, all other curves and the spot prices as they are: the heap in
\* which the market's curve object itself holds the moved points.
MovedHeap(r, amount) ==
  IF r.op = "computeDv01"
  THEN [heap EXCEPT ![mkt.curvesMap[NamedCurve(r)]] =
          [@ EXCEPT !.rates = [i \in DOMAIN @ |-> @[i] + amount]]]
  ELSE [heap EXCEPT ![mkt.volsMap[NamedCurve(r)]] =
          [@ EXCEPT !.vols = [i \in DOMAIN @ |-> @[i] + amount]]]

\* h of call r: 0.0001 for rates, 0.01 for volatilities.
BumpOf(r) ==
  IF r.op = "computeDv01" THEN defaultCurveShockAmount ELSE defaultVolShockAmount

\* The given pricer's price of the instrument against the moved market.
MovedPrice(r, amount) == Price(mkt, MovedHeap(r, amount), r.trade, r.pr, "crash").value

\* C3: when the instrument's named curve exists in the market, the result of
\* computeDv01 (h = 0.0001) and of computeVega (h = 0.01) has exactly one
\* entry, keyed by that curve name, with value (P_up - P_down) / 2, where P_up
\* and P_down are the pricer's prices against copies of the market in which
\* every point of the named curve is raised, resp. lowered, by h and all other
\* curves and spot prices equal the original's.
C3_CentralDifference ==
  (SensitivityReturned /\ ret.trade # NullTrade /\ NamedCurve(ret) # ""
     /\ HoldsCurve(ret, NamedCurve(ret)))
  => LET P_up == MovedPrice(ret, BumpOf(ret))
         P_down == MovedPrice(ret, -BumpOf(ret))
     IN /\ DOMAIN ret.result = {NamedCurve(ret)}
        /\ ret.priced
        /\ ret.detail.up = Contents(mkt, MovedHeap(ret, BumpOf(ret)))
        /\ ret.detail.down = Contents(mkt, MovedHeap(ret, -BumpOf(ret)))
        /\ ret.detail.pv_up.value = P_up
        /\ ret.detail.pv_down.value = P_down
        /\ ret.result[NamedCurve(ret)] = (P_up - P_down) \div 2

\* A computed rate sensitivity that is not zero: the two prices differ.
C3_Witness ==
  /\ ret.op = "computeDv01"
  /\ ret.priced
  /\ ret.result[NamedCurve(ret)] # 0
  /\ ret.detail.pv_up.value # ret.detail.pv_down.value

\* C4: computeDv01 (resp. computeVega) returns an empty result whenever the
\* instrument's rate (resp. volatility) curve name is empty or names a curve
\* absent from the market, and the pricer is not invoked.
C4_NotApplicable ==
  (SensitivityReturned /\ ret.trade # NullTrade
     /\ (NamedCurve(ret) = "" \/ ~HoldsCurve(ret, NamedCurve(ret))))
  => /\ ret.result = EmptyMap
     /\ ret.calls = 0
     /\ ~ret.priced

\* computeDv01 returned for an instrument that names a rate curve the market
\* lacks, while the market holds another rate curve with points.
C4_Witness ==
  /\ ret.op = "computeDv01"
  /\ ret.trade # NullTrade
  /\ NamedCurve(ret) # ""
  /\ ~HoldsCurve(ret, NamedCurve(ret))
  /\ \E k \in DOMAIN mkt.curvesMap : ~RateCurve_isEmpty(heap[mkt.curvesMap[k]])
  /\ ret.result = EmptyMap

\* C5: when the instrument's named curve is present in the market but has no
\* points, computeDv01 / computeVega return an empty result (key absent),
\* never an entry whose value is 0.
C5_EmptyCurveGivesNoEntry ==
  (SensitivityReturned /\ ret.trade # NullTrade /\ NamedCurve(ret) # ""
     /\ HoldsCurve(ret, NamedCurve(ret)) /\ NamedPoints(ret) = << >>)
  => ret.result = EmptyMap

\* The named curve has no points and the result holds an entry of value 0
\* under its name, obtained from three calls of the pricer.
C5_ZeroEntry ==
  /\ SensitivityReturned
  /\ ret.priced
  /\ NamedPoints(ret) = << >>
  /\ ret.result = (NamedCurve(ret) :> 0)
  /\ ret.calls = 3

\* ===================================================== claims on the pricer
\* Pricer::Price has returned for a tree instrument (an option).
PricedOption == ret.op = "Price" /\ ret.trade # NullTrade

\* The instrument's expiry is after the market's as-of date: T > 0.
BeforeExpiry(r) == r.trade.expiryDate > mkt.asOf

\* payoff(spot of the instrument's underlying), the spot as the market holds it
PayoffAtSpot(r) ==
  VanillaOption(r.trade.optionType, r.trade.strike, mkt.stockPricesMap[r.trade.underlying])

\* C6: for a tree instrument whose expiry is on or before the market's as-of
\* date (T <= 0), PriceTree returns exactly payoff(spot of the underlying),
\* without building a tree and without reading any rate or volatility curve,
\* for calls and puts alike.
C6_ExpiredReturnsPayoff ==
  (PricedOption /\ ret.trade.expiryDate <= mkt.asOf
     /\ ret.trade.underlying \in DOMAIN mkt.stockPricesMap)
  => /\ ret.out.value = PayoffAtSpot(ret)
     /\ ~ret.out.setup
     /\ ret.out.reads = {}
     /\ ~ret.out.raised

\* A put strictly past its expiry, in the money, priced by a pricer with a
\* positive step count against a market that holds the curves the pricer reads.
C6_Witness ==
  /\ PricedOption
  /\ ret.trade.expiryDate < mkt.asOf
  /\ ret.trade.optionType = "Put"
  /\ ret.pr.nTimeSteps > 0
  /\ ret.trade.underlying \in DOMAIN mkt.stockPricesMap
  /\ {"USD_Yield_Curve", "SPX_Vol_Curve"} \subseteq
       DOMAIN mkt.curvesMap \cup DOMAIN mkt.volsMap
  /\ ret.out.value > 0

\* The curve the market holds under `name` is missing or has no points.
NoRates(name) == RateCurve_isEmpty(MarketH_getCurve(mkt, heap, name))
NoVols(name) == VolCurve_isEmpty(MarketH_getVolCurve(mkt, heap, name))

\* C7: pricing a tree instrument with T > 0 fails with an error, no price
\* being returned, whenever the rate curve or the volatility curve it needs
\* is missing from the market or has no points.
C7_MissingCurveRaises ==
  (PricedOption /\ BeforeExpiry(ret) /\ ret.pr.nTimeSteps > 0
     /\ (NoRates(ret.trade.discountCurveName) \/ NoVols(ret.trade.volatilityCurveName)))
  => ret.out.raised

\* A price computed with rate 0 and volatility 0 in a market that holds no
\* curve at all.
C7_PricedWithoutCurves ==
  /\ PricedOption
  /\ BeforeExpiry(ret)
  /\ mkt.curvesMap = EmptyMap
  /\ mkt.volsMap = EmptyMap
  /\ ret.out.setup
  /\ ret.out.m.sigma = 0
  /\ ret.out.m.effectiveRate = 0
  /\ ~ret.out.raised

\* C8: for T > 0 the lattice parameters are computed from sigma = the value at
\* expiry of the volatility curve named by the instrument and r = the value
\* at expiry of the rate curve named by the instrument.
C8_ReadsNamedCurves ==
  (PricedOption /\ ret.out.setup)
  => /\ ret.out.m.sigma =
          VolCurve_getVol(MarketH_getVolCurve(mkt, heap, ret.trade.volatilityCurveName),
                          ret.trade.expiryDate)
     /\ ret.out.m.effectiveRate =
          RateCurve_getRate(MarketH_getCurve(mkt, heap, ret.trade.discountCurveName),
                            ret.trade.expiryDate)

\* The instrument names "USD-SOFR" and "VOL_CURVE_DEFAULT", both held with
\* points by the market, and the lattice was set up with rate 0 and
\* volatility 0.
C8_NamedCurvesIgnored ==
  /\ PricedOption
  /\ ret.out.setup
  /\ ~NoRates(ret.trade.discountCurveName)
  /\ ~NoVols(ret.trade.volatilityCurveName)
  /\ ret.out.m.sigma = 0
  /\ ret.out.m.effectiveRate = 0

\* C9: Pricer.Price called with a null instrument raises an error: it returns
\* no price and does not dereference the null instrument.
C9_NullTradeRaises ==
  (ret.op = "Price" /\ ret.trade = NullTrade)
  => (ret.out.raised /\ ~ret.out.deref)

\* The null instrument was dereferenced and the call returned the price 0.0.
C9_NullDereferenced ==
  /\ ret.op = "Price"
  /\ ret.trade = NullTrade
  /\ ret.out.deref
  /\ ~ret.out.crashed
  /\ ret.out.value = 0

\* C10, as the specification states it: when the step count N is not
\* positive and T > 0, PriceTree returns the intrinsic payoff(spot).
C10_NoStepsReturnsPayoff ==
  (PricedOption /\ BeforeExpiry(ret) /\ ret.pr.nTimeSteps <= 0
     /\ ret.trade.underlying \in DOMAIN mkt.stockPricesMap)
  => ret.out.value = PayoffAtSpot(ret)

\* C10, amended: when the step count N is not positive and T > 0, PriceTree
\* returns 0.0, whatever the payoff at the spot, without setting up a lattice
\* and without reading a curve.
C10_NoStepsReturnsZero ==
  (PricedOption /\ BeforeExpiry(ret) /\ ret.pr.nTimeSteps <= 0)
  => /\ ret.out.value = 0
     /\ ~ret.out.setup
     /\ ret.out.reads = {}
     /\ ~ret.out.raised

\* A pricer of zero steps has priced an option before its expiry whose payoff
\* at the spot is positive.
C10_Witness ==
  /\ PricedOption
  /\ BeforeExpiry(ret)
  /\ ret.pr.nTimeSteps = 0
  /\ ret.trade.underlying \in DOMAIN mkt.stockPricesMap
  /\ PayoffAtSpot(ret) > 0
  /\ ret.out.value = 0

\* ============================================== claims on copies of markets
\* C2: copying a Market (copy construction or assignment) yields a market
\* with exactly the same named rate curves, volatility curves (same points)
\* and spot prices as the source at the time of the copy.
C2_CopyEqualsSource ==
  ret.op = "copy" => Contents(other, heap) = Contents(mkt, heap)

\* The copy constructor of Market.h has copied a market that holds a rate
\* curve with points and a spot price: the copy holds no curve and no price.
C2_CopyIsEmpty ==
  /\ ret.op = "copy"
  /\ ret.by = "Market.h copy constructor"
  /\ \E k \in DOMAIN mkt.curvesMap : ~RateCurve_isEmpty(heap[mkt.curvesMap[k]])
  /\ mkt.stockPricesMap # EmptyMap
  /\ other.curvesMap = EmptyMap
  /\ other.stockPricesMap = EmptyMap

\* ================================================ claims on the lattice values
\* The instrument of call r as a European, resp. American, option: same option
\* type, strike, expiry, underlying and curve names.
AsEuropean(r) == [r.trade EXCEPT !.kind = "EuropeanOption"]
AsAmerican(r) == [r.trade EXCEPT !.kind = "AmericanOption"]

\* The values the backward pass of PriceTree gives to the nodes 0..step of
\* `step` for `trade`, in the market and with the pricer of call r.
NodeValues(r, trade, step) ==
  LET N == r.pr.nTimeSteps
      m == ModelSetup(mkt, heap, trade, r.pr)
      dt == YearsBetween(GetExpiry(trade), mkt.asOf) \div N
      leaves == [i \in 0..N |-> Payoff(trade, GetSpot(m, N, i))]
  IN StepLoopTo(leaves, m, trade, dt, N - 1, step)

\* C11: for the same option type, strike, expiry, underlying, market and step
\* count, the lattice price of the American option is greater than or equal
\* to that of the European option, and so is the value at every node of the
\* lattice, not only at the root.
C11_AmericanAtLeastEuropean ==
  (PricedOption /\ ret.out.setup /\ ret.trade.kind = "AmericanOption")
  => /\ ret.out.value = NodeValues(ret, AsAmerican(ret), 0)[0]
     /\ ret.out.value >= Price(mkt, heap, AsEuropean(ret), ret.pr, "crash").value
     /\ \A step \in 0..ret.pr.nTimeSteps :
          LET american == NodeValues(ret, AsAmerican(ret), step)
              european == NodeValues(ret, AsEuropean(ret), step)
          IN \A i \in 0..step : american[i] >= european[i]

\* An American put priced strictly above the same European put, with a node
\* below the root where the American value is strictly greater too.
C11_Witness ==
  /\ PricedOption
  /\ ret.out.setup
  /\ ret.trade.kind = "AmericanOption"
  /\ ret.trade.optionType = "Put"
  /\ ret.out.value > Price(mkt, heap, AsEuropean(ret), ret.pr, "crash").value
  /\ \E i \in 0..1 :
       NodeValues(ret, AsAmerican(ret), 1)[i] > NodeValues(ret, AsEuropean(ret), 1)[i]

\* ===================================== claims on calls that share a pricer
\* The price that thread t's call returns when it runs alone.
PriceAlone(t) ==
  Price(MarketOf(t), heap, calls[t].trade,
        [nTimeSteps |-> pricer.nTimeSteps,
         fixedRiskFreeRate_ |-> pricer.fixedRiskFreeRate_], "crash").value

\* C12: two pricing calls on independent (instrument, market) pairs that
\* interleave on the same pricer object each return the price they return
\* when run alone.
C12_InterleavedPriceIsPriceAlone ==
  \A t \in Threads : calls[t].pc = "done" => calls[t].value = PriceAlone(t)

\* Both threads have returned from calls on instruments before expiry, and
\* the price that one of them returned is not its price alone.
C12_WrongPrice ==
  /\ \A t \in Threads : calls[t].pc = "done" /\ calls[t].trade.expiryDate > AsOf
  /\ \E t \in Threads : calls[t].value # PriceAlone(t)

\* ============================================ operations on a single curve
\* One rate curve and one volatility curve, filled point by point, read and
\* shocked.  `ret` records the last operation and, for each curve, the value
\* last added for each date and the number of shocks applied so far.

\* Most shocks applied to one curve.
MaxShocks == 1

CurveDates == {AsOf + 30, AsOf + 90, AsOf + 180}
VolDates == {AsOf + 90, AsOf + 180}
CurveRates == {2 * (FP \div 100), 5 * (FP \div 100)}
CurveVols == {20 * (FP \div 100), 30 * (FP \div 100)}
\* The dates a curve is read at: the knots, and dates before, between and
\* after them.
QueryDates == CurveDates \cup {AsOf, AsOf + 60, AsOf + 120, AsOf + 365}

TheRateCurve == Market_getCurve(mkt, "USD-SOFR")
TheVolCurve == Market_getVolCurve(mkt, "VOL_CURVE_DEFAULT")

NoPoints == [d \in {} |-> 0]

InitCurve ==
  /\ mkt = Market_addVolCurve(Market_addCurve(NewMarket(AsOf, "test"), "USD-SOFR",
                                              Slot("USD-SOFR")),
                              "VOL_CURVE_DEFAULT", Slot("VOL_CURVE_DEFAULT"))
  /\ other = DefaultMarket
  /\ heap = (Slot("USD-SOFR") :> EmptyRateCurve) @@ (Slot("VOL_CURVE_DEFAULT") :> EmptyVolCurve)
  /\ ret = [op |-> "new", kind |-> "none", date |-> 0, value |-> 0, present |-> FALSE,
            added |-> [rate |-> NoPoints, vol |-> NoPoints],
            shocks |-> [rate |-> 0, vol |-> 0]]
  /\ pricer = NewPricer(MaxSteps)
  /\ calls = [t \in Threads |-> NoCall]

\* rateCurve->addRate(d, v); the points are added while the curve is built,
\* the shocks are applied to the finished curve
CurveAddRate(d, v) ==
  /\ ret.shocks.rate = 0
  /\ heap' = [heap EXCEPT ![TheRateCurve] = RateCurve_addRate(@, d, v)]
  /\ ret' = [ret EXCEPT !.op = "add", !.kind = "rate", !.date = d, !.value = v,
                        !.present = \E i \in DOMAIN heap[TheRateCurve].tenorDates :
                                      heap[TheRateCurve].tenorDates[i] = d,
                        !.added.rate = (d :> v) @@ @]
  /\ UNCHANGED << mkt, other >>

\* volCurve->addVol(d, v)
CurveAddVol(d, v) ==
  /\ ret.shocks.vol = 0
  /\ heap' = [heap EXCEPT ![TheVolCurve] = VolCurve_addVol(@, d, v)]
  /\ ret' = [ret EXCEPT !.op = "add", !.kind = "vol", !.date = d, !.value = v,
                        !.present = \E i \in DOMAIN heap[TheVolCurve].tenors :
                                      heap[TheVolCurve].tenors[i] = d,
                        !.added.vol = (d :> v) @@ @]
  /\ UNCHANGED << mkt, other >>

\* double r = rateCurve->getRate(d)
CurveGetRate(d) ==
  /\ ret' = [ret EXCEPT !.op = "get", !.kind = "rate", !.date = d, !.present = FALSE,
                        !.value = RateCurve_getRate(heap[TheRateCurve], d)]
  /\ UNCHANGED << mkt, other, heap >>

\* double v = volCurve->getVol(d)
CurveGetVol(d) ==
  /\ ret' = [ret EXCEPT !.op = "get", !.kind = "vol", !.date = d, !.present = FALSE,
                        !.value = VolCurve_getVol(heap[TheVolCurve], d)]
  /\ UNCHANGED << mkt, other, heap >>

\* rateCurve->shock(amount)
CurveShockRate(amount) ==
  /\ ret.shocks.rate < MaxShocks
  /\ heap' = [heap EXCEPT ![TheRateCurve] = RateCurve_shock(@, amount)]
  /\ ret' = [ret EXCEPT !.op = "shock", !.kind = "rate", !.date = 0, !.value = amount,
                        !.present = FALSE,
                        !.shocks.rate = @ + 1]
  /\ UNCHANGED << mkt, other >>

\* volCurve->shock(amount)
CurveShockVol(amount) ==
  /\ ret.shocks.vol < MaxShocks
  /\ heap' = [heap EXCEPT ![TheVolCurve] = VolCurve_shock(@, amount)]
  /\ ret' = [ret EXCEPT !.op = "shock", !.kind = "vol", !.date = 0, !.value = amount,
                        !.present = FALSE,
                        !.shocks.vol = @ + 1]
  /\ UNCHANGED << mkt, other >>

NextCurve ==
  \/ Sequential /\ \E d \in CurveDates, v \in CurveRates : CurveAddRate(d, v)
  \/ Sequential /\ \E d \in VolDates, v \in CurveVols : CurveAddVol(d, v)
  \/ Sequential /\ \E d \in QueryDates : CurveGetRate(d)
  \/ Sequential /\ \E d \in QueryDates : CurveGetVol(d)
  \/ Sequential /\ \E amount \in {defaultCurveShockAmount, -defaultCurveShockAmount} :
                     CurveShockRate(amount)
  \/ Sequential /\ \E amount \in {defaultVolShockAmount, -defaultVolShockAmount} :
                     CurveShockVol(amount)

SpecCurve == InitCurve /\ [][NextCurve]_vars

\* ====================================================== claims on the curves
Points(dates, values) == {<< dates[i], values[i] >> : i \in 1..Len(dates)}
StrictlyIncreasing(s) == \A i \in 1..(Len(s) - 1) : s[i] < s[i + 1]
LastAdded(added) == {<< d, added[d] >> : d \in DOMAIN added}

\* The points of both curves are in strictly increasing date order, with as
\* many values as dates; a curve that only addRate / addVol has written holds
\* exactly the pairs (date, last value added for that date).
PointsAreLastAdded ==
  LET r == heap[TheRateCurve]
      v == heap[TheVolCurve]
  IN /\ Len(r.tenorDates) = Len(r.rates)
     /\ StrictlyIncreasing(r.tenorDates)
     /\ ret.shocks.rate = 0 => Points(r.tenorDates, r.rates) = LastAdded(ret.added.rate)
     /\ Len(v.tenors) = Len(v.vols)
     /\ StrictlyIncreasing(v.tenors)
     /\ ret.shocks.vol = 0 => Points(v.tenors, v.vols) = LastAdded(ret.added.vol)

\* A step that adds a value for a date the curve already holds keeps the dates
\* and replaces the value of that date only.
OverwriteKeepsOthers ==
  /\ (ret'.op = "add" /\ ret'.kind = "rate" /\
      \E i \in DOMAIN heap[TheRateCurve].tenorDates :
         heap[TheRateCurve].tenorDates[i] = ret'.date)
     => /\ heap'[TheRateCurve].tenorDates = heap[TheRateCurve].tenorDates
        /\ Len(heap'[TheRateCurve].rates) = Len(heap[TheRateCurve].rates)
        /\ \A i \in DOMAIN heap[TheRateCurve].rates :
             heap'[TheRateCurve].rates[i] =
               IF heap[TheRateCurve].tenorDates[i] = ret'.date THEN ret'.value
               ELSE heap[TheRateCurve].rates[i]
  /\ (ret'.op = "add" /\ ret'.kind = "vol" /\
      \E i \in DOMAIN heap[TheVolCurve].tenors : heap[TheVolCurve].tenors[i] = ret'.date)
     => /\ heap'[TheVolCurve].tenors = heap[TheVolCurve].tenors
        /\ Len(heap'[TheVolCurve].vols) = Len(heap[TheVolCurve].vols)
        /\ \A i \in DOMAIN heap[TheVolCurve].vols :
             heap'[TheVolCurve].vols[i] =
               IF heap[TheVolCurve].tenors[i] = ret'.date THEN ret'.value
               ELSE heap[TheVolCurve].vols[i]

\* C13: after any sequence of addRate (addVol) calls on an initially empty
\* curve the points are the pairs (date, last value added), one per date, in
\* strictly increasing date order, dates and values of equal length; an add for
\* a date already present replaces that date's value and nothing else.
C13_SortedUniqueLastAdded == [] PointsAreLastAdded /\ [][OverwriteKeepsOthers]_vars

\* addRate has replaced the value of the middle one of three dates, added out
\* of date order, by a different value.
C13_Witness ==
  /\ ret.op = "add" /\ ret.kind = "rate" /\ ret.present
  /\ ret.shocks.rate = 0
  /\ Len(heap[TheRateCurve].tenorDates) = 3
  /\ ret.date = heap[TheRateCurve].tenorDates[2]
  /\ heap[TheRateCurve].rates[2] = ret.value
  /\ heap[TheRateCurve].rates[1] # ret.value

\* The dates and the values of the curve that the last operation was on.
DatesOf(kind) == IF kind = "rate" THEN heap[TheRateCurve].tenorDates ELSE heap[TheVolCurve].tenors
ValuesOf(kind) == IF kind = "rate" THEN heap[TheRateCurve].rates ELSE heap[TheVolCurve].vols
\* get has returned ret.value for ret.date on a curve with points
GotFromCurve == ret.op = "get" /\ Len(DatesOf(ret.kind)) > 0

\* get for a stored date has returned the value stored at that date.
KnotValue ==
  GotFromCurve =>
    \A i \in 1..Len(DatesOf(ret.kind)) :
       DatesOf(ret.kind)[i] = ret.date => ret.value = ValuesOf(ret.kind)[i]

\* A get leaves both curves as they were, and a get that follows a get for the
\* same date on the same curve returns the same value.
GetIsIdempotent ==
  ret'.op = "get" =>
    /\ heap' = heap
    /\ (ret.op = "get" /\ ret.kind = ret'.kind /\ ret.date = ret'.date) => ret'.value = ret.value

\* C14: for every date stored in a non-empty curve getRate (getVol) returns
\* exactly the value stored at that date, for a first, last or interior knot,
\* and a repeated call returns the same value and leaves the curve unchanged.
C14_KnotReturnsStoredValue == [] KnotValue /\ [][GetIsIdempotent]_vars

\* getRate has returned the value of the interior knot of a shocked curve of
\* three points whose neighbours hold another value.
C14_Witness ==
  /\ GotFromCurve /\ ret.kind = "rate" /\ ret.shocks.rate = 1
  /\ Len(DatesOf("rate")) = 3
  /\ ret.date = DatesOf("rate")[2]
  /\ ret.value = ValuesOf("rate")[2]
  /\ ValuesOf("rate")[1] # ret.value /\ ValuesOf("rate")[3] # ret.value

\* C15: on a non-empty curve, get for a date at or before the first knot
\* returns the first stored value and get for a date at or after the last knot
\* returns the last stored value, also when the curve has a single point.
C15_FlatExtrapolation ==
  GotFromCurve =>
    /\ ret.date <= DatesOf(ret.kind)[1] => ret.value = ValuesOf(ret.kind)[1]
    /\ ret.date >= DatesOf(ret.kind)[Len(DatesOf(ret.kind))]
         => ret.value = ValuesOf(ret.kind)[Len(ValuesOf(ret.kind))]

\* getVol has been asked for a date after the last of two knots whose values
\* differ.
C15_Witness ==
  /\ GotFromCurve /\ ret.kind = "vol"
  /\ Len(DatesOf("vol")) = 2
  /\ ret.date > DatesOf("vol")[2]
  /\ ValuesOf("vol")[1] # ValuesOf("vol")[2]
  /\ ret.value = ValuesOf("vol")[2]

\* The position of the greatest knot before date x, for x strictly between
\* the first and the last knot.
KnotBefore(dates, x) ==
  CHOOSE i \in 1..(Len(dates) - 1) : dates[i] < x /\ x <= dates[i + 1]
Interior(dates, x) ==
  /\ Len(dates) > 1
  /\ dates[1] < x /\ x < dates[Len(dates)]
  /\ \A i \in 1..Len(dates) : dates[i] # x
Smaller(a, b) == IF a < b THEN a ELSE b
Larger(a, b) == IF a < b THEN b ELSE a

\* C16: for a date x strictly between the first and the last knot that is not
\* a knot, get returns y0 + (x - x0) * (y1 - y0) / (x1 - x0) for the greatest
\* knot (x0, y0) before x and the least knot (x1, y1) after x, on serial day
\* numbers; the result lies between y0 and y1.
C16_LinearBetweenKnots ==
  (GotFromCurve /\ Interior(DatesOf(ret.kind), ret.date)) =>
    LET i == KnotBefore(DatesOf(ret.kind), ret.date)
        x0 == DatesOf(ret.kind)[i]
        x1 == DatesOf(ret.kind)[i + 1]
        y0 == ValuesOf(ret.kind)[i]
        y1 == ValuesOf(ret.kind)[i + 1]
    IN /\ ret.value = y0 + ((ret.date - x0) * (y1 - y0)) \div (x1 - x0)
       /\ Smaller(y0, y1) <= ret.value /\ ret.value <= Larger(y0, y1)

\* getRate has interpolated between the second and the third of three knots,
\* away from the middle of the segment, and returned a value strictly between
\* the two stored values.
C16_Witness ==
  /\ GotFromCurve /\ ret.kind = "rate" /\ Interior(DatesOf("rate"), ret.date)
  /\ Len(DatesOf("rate")) = 3
  /\ KnotBefore(DatesOf("rate"), ret.date) = 2
  /\ ret.date - DatesOf("rate")[2] # DatesOf("rate")[3] - ret.date
  /\ Smaller(ValuesOf("rate")[2], ValuesOf("rate")[3]) < ret.value
  /\ ret.value < Larger(ValuesOf("rate")[2], ValuesOf("rate")[3])

\* C17: get on a curve with no points does not return the number 0 as if it
\* were a stored value (getRate / getVol return a double and have no throw
\* statement, so the number returned is all the caller receives).
C17_EmptyCurveNotZero ==
  (ret.op = "get" /\ Len(DatesOf(ret.kind)) = 0) => ret.value # 0

\* getVol on the volatility curve without points has returned 0.
C17_ZeroFromEmptyCurve ==
  /\ ret.op = "get" /\ ret.kind = "vol"
  /\ Len(DatesOf("vol")) = 0
  /\ ret.value = 0

\* ====================================================== claims on the shocks
Holder(who) == IF who = "mkt" THEN mkt ELSE other
OtherHolder(who) == IF who = "mkt" THEN other ELSE mkt

\* A step that shocks the rate curve at address a by amount: the curve keeps
\* its dates and every rate grows by amount, no other object changes, and the
\* market `bystander` holds after the step what it held before.
RateShockIsLocal(a, amount, bystander) ==
  (a # Null /\ heap' = [heap EXCEPT ![a] = RateCurve_shock(heap[a], amount)]) =>
    /\ heap'[a].tenorDates = heap[a].tenorDates
    /\ Len(heap'[a].rates) = Len(heap[a].rates)
    /\ \A i \in 1..Len(heap[a].rates) : heap'[a].rates[i] = heap[a].rates[i] + amount
    /\ \A b \in DOMAIN heap \ {a} : heap'[b] = heap[b]
    /\ Contents(bystander, heap') = Contents(bystander, heap)

VolShockIsLocal(a, amount, bystander) ==
  (a # Null /\ heap' = [heap EXCEPT ![a] = VolCurve_shock(heap[a], amount)]) =>
    /\ heap'[a].tenors = heap[a].tenors
    /\ Len(heap'[a].vols) = Len(heap[a].vols)
    /\ \A i \in 1..Len(heap[a].vols) : heap'[a].vols[i] = heap[a].vols[i] + amount
    /\ \A b \in DOMAIN heap \ {a} : heap'[b] = heap[b]
    /\ Contents(bystander, heap') = Contents(bystander, heap)

ShockIsLocal ==
  \A who \in {"mkt", "other"} :
    /\ \A name \in CopyRateNames, amount \in {defaultCurveShockAmount, -defaultCurveShockAmount} :
         RateShockIsLocal(Market_getCurve(Holder(who), name), amount, OtherHolder(who))
    /\ \A name \in CopyVolNames, amount \in {defaultVolShockAmount, -defaultVolShockAmount} :
         VolShockIsLocal(Market_getVolCurve(Holder(who), name), amount, OtherHolder(who))

ExcelLeap(y) == (y % 4 = 0 /\ (y % 100 # 0 \/ y % 400 = 0)) \/ y = 1900

isGregorianLeap(y_val) == y_val % 4 = 0 /\ (y_val % 100 # 0 \/ y_val % 400 = 0)

\* the first loop of calculateSerialNumber, from y_iter up to year - 1: every
\* round adds 365, and one more for a leap year (written as a count, not as a
\* recursion, so that years far from 1900 can be evaluated)
DaysBeforeYear(y_iter, year) ==
  365 * Cardinality(y_iter..(year - 1)) +
  Cardinality({y \in y_iter..(year - 1) : ExcelLeap(y)})

monthDays(leap) ==
  << 31, IF leap THEN 29 ELSE 28, 31, 30, 31, 30, 31, 31, 30, 31, 30, 31 >>

RECURSIVE DaysBeforeMonth(_, _, _)
\* the second loop of calculateSerialNumber, from m_iter up to month - 1
DaysBeforeMonth(m_iter, month, leap) ==
  IF m_iter >= month THEN 0
  ELSE monthDays(leap)[m_iter] + DaysBeforeMonth(m_iter + 1, month, leap)

\* Date::calculateSerialNumber
calculateSerialNumber(year, month, day) ==
  DaysBeforeYear(1900, year) + DaysBeforeMonth(1, month, ExcelLeap(year)) + day

\* The days that the year loop of calculateYMD has subtracted when it reaches
\* year y from year `from`.
GregorianDaysBefore(from, y) ==
  365 * Cardinality(from..(y - 1)) +
  Cardinality({z \in from..(y - 1) : isGregorianLeap(z)})

\* the year loop of calculateYMD: the year and the day number left in it.  The
\* loop stops in the first year that the remaining day number fits in; after
\* at least one round that number is positive.
YearOfDay(year, dayNum) ==
  IF dayNum <= (IF isGregorianLeap(year) THEN 366 ELSE 365) THEN << year, dayNum >>
  ELSE LET y == CHOOSE y \in year..(year + dayNum \div 365) :
                  /\ dayNum - GregorianDaysBefore(year, y) >= 1
                  /\ dayNum - GregorianDaysBefore(year, y)
                       <= (IF isGregorianLeap(y) THEN 366 ELSE 365)
       IN << y, dayNum - GregorianDaysBefore(year, y) >>

RECURSIVE MonthOfDay(_, _, _)
\* the month loop of calculateYMD (it throws when month passes 12)
MonthOfDay(month, dayNum, leap) ==
  IF month > 12 THEN << 13, dayNum >>
  ELSE IF dayNum <= monthDays(leap)[month] THEN << month, dayNum >>
  ELSE MonthOfDay(month + 1, dayNum - monthDays(leap)[month], leap)

\* A setFromSerial that knows no 1900-02-29: serial 60 and the serials after it
\* are counted as plain Gregorian days.
setFromSerial_NoPhantomDay(serial) ==
  LET y == YearOfDay(1900, serial)
      m == MonthOfDay(1, y[2], isGregorianLeap(y[1]))
  IN [year |-> y[1], month |-> m[1], day |-> m[2], serialNumber |-> serial]

\* Date::setFromSerial, for serial > 0: serialNumber is set, then calculateYMD
setFromSerial(serial) ==
  IF serial = 60 THEN [year |-> 1900, month |-> 2, day |-> 29, serialNumber |-> serial]
  ELSE LET y == YearOfDay(1900, IF serial > 60 THEN serial - 1 ELSE serial)
           m == MonthOfDay(1, y[2], isGregorianLeap(y[1]))
       IN [year |-> y[1], month |-> m[1], day |-> m[2], serialNumber |-> serial]

\* The test of both constructors on the three numbers
ValidYMD(y, m, d) == ~(m < 1 \/ m > 12 \/ d < 1 \/ d > 31 \/ y < 1800 \/ y > 9999)

\* Date::Date(): 1900-01-01, serial 1
DefaultDate ==
  [year |-> 1900, month |-> 1, day |-> 1, serialNumber |-> calculateSerialNumber(1900, 1, 1)]

\* Date::Date(int y, int m, int d), when it does not throw
DateYMD(y, m, d) ==
  [year |-> y, month |-> m, day |-> d, serialNumber |-> calculateSerialNumber(y, m, d)]

\* A string is the sequence of its characters.
DigitChars == << "0", "1", "2", "3", "4", "5", "6", "7", "8", "9" >>
IsDigit(c) == \E i \in 1..10 : DigitChars[i] = c
DigitValue(c) == (CHOOSE i \in 1..10 : DigitChars[i] = c) - 1

RECURSIVE Padded(_, _)
\* printf %0<width>d of a number 0 <= n < 10^width
Padded(n, width) ==
  IF width = 0 THEN << >> ELSE Padded(n \div 10, width - 1) \o << DigitChars[(n % 10) + 1] >>

\* Date::toString: %04d-%02d-%02d
toString(y, m, d) == Padded(y, 4) \o << "-" >> \o Padded(m, 2) \o << "-" >> \o Padded(d, 2)

RECURSIVE StoI(_, _)
\* std::stoi on a string of digits: the number read so far is acc; reading
\* stops at the first character that is no digit
StoI(chars, acc) ==
  IF chars = << >> \/ ~IsDigit(Head(chars)) THEN acc
  ELSE StoI(Tail(chars), 10 * acc + DigitValue(Head(chars)))

\* std::stoi throws when the string does not start with a digit
StoIFails(chars) == chars = << >> \/ ~IsDigit(Head(chars))

NoDate == [year |-> 0, month |-> 0, day |-> 0, serialNumber |-> 0]

\* Date::Date(const std::string& dateStr): the date, or NoDate when it throws
DateFromString(dateStr) ==
  IF Len(dateStr) # 10 \/ dateStr[5] # "-" \/ dateStr[8] # "-" THEN NoDate
  ELSE IF \/ StoIFails(SubSeq(dateStr, 1, 4))
          \/ StoIFails(SubSeq(dateStr, 6, 7))
          \/ StoIFails(SubSeq(dateStr, 9, 10)) THEN NoDate
  ELSE LET y == StoI(SubSeq(dateStr, 1, 4), 0)
           m == StoI(SubSeq(dateStr, 6, 7), 0)
           d == StoI(SubSeq(dateStr, 9, 10), 0)
       IN IF ValidYMD(y, m, d) THEN DateYMD(y, m, d) ELSE NoDate

RECURSIVE DigitsPrefix(_)
\* The length of the longest prefix of digits (find_first_not_of("0123456789"))
DigitsPrefix(chars) ==
  IF chars = << >> \/ ~IsDigit(Head(chars)) THEN 0 ELSE 1 + DigitsPrefix(Tail(chars))

RECURSIVE WrapMonths(_)
\* while (resultDate.month > 12) { resultDate.year++; resultDate.month -= 12; }
WrapMonths(date) ==
  IF date.month > 12 THEN WrapMonths([date EXCEPT !.year = @ + 1, !.month = @ - 12]) ELSE date

\* parseTenorString of main.cpp: a copy of baseDate whose year, month and day
\* are moved; serialNumber stays the one copied from baseDate
parseTenorString(baseDate, tenorStr) ==
  IF tenorStr = << "O", "N" >>
  THEN IF baseDate.day + 1 > 30
       THEN IF baseDate.month + 1 > 12
            THEN [baseDate EXCEPT !.day = 1, !.month = 1, !.year = @ + 1]
            ELSE [baseDate EXCEPT !.day = 1, !.month = @ + 1]
       ELSE [baseDate EXCEPT !.day = @ + 1]
  ELSE LET unitPos == DigitsPrefix(tenorStr)
       IN IF unitPos = Len(tenorStr) \/ unitPos = 0 THEN baseDate
          ELSE LET val == StoI(SubSeq(tenorStr, 1, unitPos), 0)
                   unit == tenorStr[unitPos + 1]
                   moved == IF unit = "M" THEN WrapMonths([baseDate EXCEPT !.month = @ + val])
                            ELSE [baseDate EXCEPT !.year = @ + val]
               IN IF unit \notin {"M", "Y"} THEN baseDate
                  ELSE IF moved.day > 28 THEN [moved EXCEPT !.day = 28]
                  ELSE moved

Slots == {"one", "two"}
\* The years are kept near 1900, where the serial numbers start, so that the
\* year loops stay short.
Years == {1799, 1899, 1900}
Months == {2, 3, 13}
Days == {1, 30}
\* The dates localtime gives for today.
Todays == {<< 1936, 8, 31 >>}
DateStrings ==
  {toString(1904, 2, 31), toString(1904, 3, 2), toString(1904, 0, 1),
   << "1", "9", "0", "4", "/", "0", "2", "/", "0", "1" >>}
TenorStrings == {<< "O", "N" >>, << "6", "M" >>, << "1", "Y" >>, << "M" >>}
\* The days dateAddTenor adds for 1D and 1M.
TenorDays == {1, 30}

InitDate ==
  /\ mkt = DefaultMarket
  /\ other = DefaultMarket
  /\ heap = EmptyMap
  /\ ret = [op |-> "new", date |-> [s \in Slots |-> DefaultDate],
            by |-> [s \in Slots |-> "Date()"], lt |-> FALSE, eq |-> TRUE]
  /\ pricer = NewPricer(MaxSteps)
  /\ calls = [t \in Threads |-> NoCall]

\* Date d(y, m, d);
Construct(slot, y, m, d) ==
  /\ ret' = IF ValidYMD(y, m, d)
            THEN [ret EXCEPT !.op = "new", !.date[slot] = DateYMD(y, m, d),
                             !.by[slot] = "Date(y, m, d)"]
            ELSE [ret EXCEPT !.op = "throw"]
  /\ UNCHANGED << mkt, other, heap >>

\* Date d(dateStr);
ConstructFromString(slot, dateStr) ==
  /\ ret' = IF DateFromString(dateStr) # NoDate
            THEN [ret EXCEPT !.op = "new", !.date[slot] = DateFromString(dateStr),
                             !.by[slot] = "Date(string)"]
            ELSE [ret EXCEPT !.op = "throw"]
  /\ UNCHANGED << mkt, other, heap >>

\* Date d;
ConstructDefault(slot) ==
  /\ ret' = [ret EXCEPT !.op = "new", !.date[slot] = DefaultDate, !.by[slot] = "Date()"]
  /\ UNCHANGED << mkt, other, heap >>

\* main: Date valueDate; valueDate.year = ...; valueDate.month = ...;
\* valueDate.day = ...;
SetToday(slot, today) ==
  /\ ret.by[slot] = "Date()"
  /\ ret' = [ret EXCEPT !.op = "fields",
                        !.date[slot] = [@ EXCEPT !.year = today[1], !.month = today[2],
                                                 !.day = today[3]],
                        !.by[slot] = "fields"]
  /\ UNCHANGED << mkt, other, heap >>

\* Date two = parseTenorString(one, tenorStr);
ParseTenor(tenorStr) ==
  /\ ret' = [ret EXCEPT !.op = "tenor", !.date["two"] = parseTenorString(ret.date["one"], tenorStr),
                        !.by["two"] = "parseTenorString"]
  /\ UNCHANGED << mkt, other, heap >>

\* Date two = dateAddTenor(one, tenor): newDate.setFromSerial(serial + days)
AddTenor(days) ==
  /\ ret' = [ret EXCEPT !.op = "tenor",
                        !.date["two"] = setFromSerial(ret.date["one"].serialNumber + days),
                        !.by["two"] = "setFromSerial"]
  /\ UNCHANGED << mkt, other, heap >>

\* one < two, one == two (Date::operator<, operator==)
Compare ==
  /\ ret' = [ret EXCEPT !.op = "compare",
                        !.lt = ret.date["one"].serialNumber < ret.date["two"].serialNumber,
                        !.eq = ret.date["one"].serialNumber = ret.date["two"].serialNumber]
  /\ UNCHANGED << mkt, other, heap >>

NextDate ==
  \/ Sequential /\ \E slot \in Slots, y \in Years, m \in Months, d \in Days : Construct(slot, y, m, d)
  \/ Sequential /\ \E slot \in Slots, dateStr \in DateStrings : ConstructFromString(slot, dateStr)
  \/ Sequential /\ \E slot \in Slots : ConstructDefault(slot)
  \/ Sequential /\ \E slot \in Slots, today \in Todays : SetToday(slot, today)
  \/ Sequential /\ \E tenorStr \in TenorStrings : ParseTenor(tenorStr)
  \/ Sequential /\ \E days \in TenorDays : AddTenor(days)
  \/ Sequential /\ Compare

SpecDate == InitDate /\ [][NextDate]_vars

\* ====================================================== claims on the dates
MadeByConstructor(slot) == ret.by[slot] \in {"Date()", "Date(y, m, d)", "Date(string)"}

\* (year, month, day) of a is earlier in the calendar than that of b
CalendarEarlier(a, b) ==
  \/ a.year < b.year
  \/ a.year = b.year /\ a.month < b.month
  \/ a.year = b.year /\ a.month = b.month /\ a.day < b.day

SameYMD(a, b) == a.year = b.year /\ a.month = b.month /\ a.day = b.day

\* C19: for two Dates that the constructors accepted, d1 < d2 holds exactly
\* when d1's (year, month, day) is earlier in the calendar than d2's, and
\* d1 == d2 exactly when they have the same (year, month, day).
C19_OrderIsCalendarOrder ==
  (ret.op = "compare" /\ \A slot \in Slots : MadeByConstructor(slot)) =>
    /\ ret.lt <=> CalendarEarlier(ret.date["one"], ret.date["two"])
    /\ ret.eq <=> SameYMD(ret.date["one"], ret.date["two"])

\* Two dates accepted by Date(y, m, d), with different (year, month, day),
\* have compared equal.
C19_DifferentDatesEqual ==
  /\ ret.op = "compare" /\ \A slot \in Slots : ret.by[slot] = "Date(y, m, d)"
  /\ ret.eq
  /\ ~SameYMD(ret.date["one"], ret.date["two"])

\* C20: every Date that is compared (or subtracted, or looked up in a curve,
\* which compare and subtract serial numbers) has the serial number of its
\* (year, month, day).
C20_SerialAgreesWithYMD ==
  ret.op = "compare" =>
    \A slot \in Slots :
      ret.date[slot].serialNumber =
        calculateSerialNumber(ret.date[slot].year, ret.date[slot].month, ret.date[slot].day)

\* The value date whose fields main has set, and a tenor date that
\* parseTenorString has made from it, have compared equal: both have serial 1.
C20_StaleSerial ==
  /\ ret.op = "compare"
  /\ ret.by["one"] = "fields" /\ ret.by["two"] = "parseTenorString"
  /\ CalendarEarlier(ret.date["one"], ret.date["two"])
  /\ ret.eq
  /\ ret.date["one"].serialNumber = 1

\* ================================================================== tenors
UpperChars == << "A", "B", "C", "D", "E", "F", "G", "H", "I", "J", "K", "L", "M",
                 "N", "O", "P", "Q", "R", "S", "T", "U", "V", "W", "X", "Y", "Z" >>
LowerChars == << "a", "b", "c", "d", "e", "f", "g", "h", "i", "j", "k", "l", "m",
                 "n", "o", "p", "q", "r", "s", "t", "u", "v", "w", "x", "y", "z" >>

\* std::tolower on one character
ToLowerChar(c) ==
  IF \E i \in 1..26 : UpperChars[i] = c
  THEN LowerChars[CHOOSE i \in 1..26 : UpperChars[i] = c]
  ELSE c

\* toLower of Date.cpp
toLower(str) == [i \in 1..Len(str) |-> ToLowerChar(str[i])]

RECURSIVE SkipSpaces(_)
\* std::stoi discards leading whitespace
SkipSpaces(chars) ==
  IF chars # << >> /\ Head(chars) = " " THEN SkipSpaces(Tail(chars)) ELSE chars

\* std::stoi: optional sign, then the digits up to the first character that is
\* no digit; it throws when no digit follows the sign
Stoi(str) ==
  LET chars == SkipSpaces(str)
      signed == chars # << >> /\ Head(chars) \in {"-", "+"}
      digits == IF signed THEN Tail(chars) ELSE chars
  IN [throws |-> StoIFails(digits),
      value |-> IF signed /\ Head(chars) = "-" THEN 0 - StoI(digits, 0) ELSE StoI(digits, 0)]

\* Units in which a month has 31 days.
UnitDays_Month31(unit) ==
  IF unit = "d" THEN 1
  ELSE IF unit = "w" THEN 7
  ELSE IF unit = "m" THEN 31
  ELSE IF unit = "y" THEN 360
  ELSE 0

\* The days by which dateAddTenor moves the serial for a unit, 0 for a
\* character that is no unit.
UnitDays(unit) ==
  IF unit = "d" THEN 1
  ELSE IF unit = "w" THEN 7
  ELSE IF unit = "m" THEN 30
  ELSE IF unit = "y" THEN 360
  ELSE 0

\* dateAddTenor of Date.cpp: the date, or the exception it throws
dateAddTenor(startDate, tenorStr) ==
  LET lowerTenor == toLower(tenorStr)
      numPartStr == SubSeq(lowerTenor, 1, Len(lowerTenor) - 1)
  IN IF lowerTenor \in {<< "o", "n" >>, << "o", "/", "n" >>}
     THEN [raised |-> FALSE, date |-> setFromSerial(startDate.serialNumber + 1)]
     ELSE IF lowerTenor = << >> \/ numPartStr = << >> \/ Stoi(numPartStr).throws
               \/ UnitDays(lowerTenor[Len(lowerTenor)]) = 0
          THEN [raised |-> TRUE, date |-> NoDate]
          ELSE LET newSerial == startDate.serialNumber +
                                Stoi(numPartStr).value * UnitDays(lowerTenor[Len(lowerTenor)])
               IN IF newSerial <= 0 THEN [raised |-> TRUE, date |-> NoDate]
                  ELSE [raised |-> FALSE, date |-> setFromSerial(newSerial)]

\* Market::parseTenorStrToDate: dateAddTenor, and the base date when it throws
Market_parseTenorStrToDate(baseDate, tenorStr) ==
  IF dateAddTenor(baseDate, tenorStr).raised
  THEN [raised |-> FALSE, date |-> baseDate]
  ELSE dateAddTenor(baseDate, tenorStr)

\* The base dates that tenors are resolved against.
TenorBases == {DateYMD(1900, 1, 5), DateYMD(1904, 2, 28), DateYMD(2024, 1, 15)}

\* Tenor strings: the overnight spellings, a number and a unit in either case,
\* and strings that are neither.
ResolvedTenors ==
  {<< "O", "N" >>, << "o", "n" >>, << "O", "/", "N" >>, << "o", "/", "n" >>,
   << "3", "D" >>, << "2", "w" >>, << "6", "M" >>, << "1", "2", "M" >>, << "1", "Y" >>,
   << "1", "0", "d" >>, << >>, << "M" >>, << "5", "X" >>, << "a", "b", "M" >>,
   << "1", ".", "5", "M" >>, << "1", "x", "5", "D" >>, << "1", "2", "M", "M" >>,
   << "-", "9", "D" >>}

InitTenor ==
  /\ mkt = DefaultMarket
  /\ other = DefaultMarket
  /\ heap = EmptyMap
  /\ ret = [op |-> "new", by |-> "none", base |-> DefaultDate, tenor |-> << >>,
            raised |-> FALSE, date |-> DefaultDate]
  /\ pricer = NewPricer(MaxSteps)
  /\ calls = [t \in Threads |-> NoCall]

\* Date d = dateAddTenor(base, tenorStr);
ResolveByDateAddTenor(base, tenorStr) ==
  /\ \E r \in {dateAddTenor(base, tenorStr)} :
       ret' = [op |-> "tenor", by |-> "dateAddTenor", base |-> base, tenor |-> tenorStr,
               raised |-> r.raised, date |-> r.date]
  /\ UNCHANGED << mkt, other, heap >>

\* Date d = Market::parseTenorStrToDate(base, tenorStr);
ResolveByMarket(base, tenorStr) ==
  /\ \E r \in {Market_parseTenorStrToDate(base, tenorStr)} :
       ret' = [op |-> "tenor", by |-> "Market::parseTenorStrToDate", base |-> base,
               tenor |-> tenorStr, raised |-> r.raised, date |-> r.date]
  /\ UNCHANGED << mkt, other, heap >>

\* Date d = parseTenorString(base, tenorStr);  (main.cpp)
ResolveByMain(base, tenorStr) ==
  /\ ret' = [op |-> "tenor", by |-> "parseTenorString", base |-> base, tenor |-> tenorStr,
             raised |-> FALSE, date |-> parseTenorString(base, tenorStr)]
  /\ UNCHANGED << mkt, other, heap >>

NextTenor ==
  \/ Sequential /\ \E base \in TenorBases, tenorStr \in ResolvedTenors :
                     ResolveByDateAddTenor(base, tenorStr)
  \/ Sequential /\ \E base \in TenorBases, tenorStr \in ResolvedTenors :
                     ResolveByMarket(base, tenorStr)
  \/ Sequential /\ \E base \in TenorBases, tenorStr \in ResolvedTenors :
                     ResolveByMain(base, tenorStr)

SpecTenor == InitTenor /\ [][NextTenor]_vars

\* ===================================================== claims on the tenors
Overnight(tenorStr) == toLower(tenorStr) \in {<< "o", "n" >>, << "o", "/", "n" >>}

\* An integer followed by exactly one unit letter among D, W, M, Y
NumberAndUnit(tenorStr) ==
  /\ Len(tenorStr) >= 2
  /\ \A i \in 1..(Len(tenorStr) - 1) : IsDigit(tenorStr[i])
  /\ toLower(tenorStr)[Len(tenorStr)] \in {"d", "w", "m", "y"}

\* The days the claim's rule gives for a tenor that is well formed
RuleDays(tenorStr) ==
  IF Overnight(tenorStr) THEN 1
  ELSE StoI(SubSeq(tenorStr, 1, Len(tenorStr) - 1), 0) *
       (CASE toLower(tenorStr)[Len(tenorStr)] = "d" -> 1
          [] toLower(tenorStr)[Len(tenorStr)] = "w" -> 7
          [] toLower(tenorStr)[Len(tenorStr)] = "m" -> 30
          [] toLower(tenorStr)[Len(tenorStr)] = "y" -> 360)

\* C21: resolving a tenor against a base date yields the date whose serial is
\* the base serial plus n for nD, 7n for nW, 30n for nM, 360n for nY and 1 for
\* ON and O/N, in either case, wherever the program resolves a tenor.
C21_SerialMovesByRule ==
  (ret.op = "tenor" /\ (Overnight(ret.tenor) \/ NumberAndUnit(ret.tenor))) =>
    /\ ~ret.raised
    /\ ret.date.serialNumber = ret.base.serialNumber + RuleDays(ret.tenor)

\* parseTenorString of main.cpp has resolved "6M": the date it returns has the
\* serial of the base date.
C21_SerialNotMoved ==
  /\ ret.op = "tenor" /\ ret.by = "parseTenorString"
  /\ ret.tenor = << "6", "M" >>
  /\ ret.date.serialNumber = ret.base.serialNumber

\* dateAddTenor has resolved "12M" against 2024-01-15
TwelveMonthsFromJanuary15 ==
  /\ ret.op = "tenor" /\ ret.by = "dateAddTenor"
  /\ ret.base = DateYMD(2024, 1, 15)
  /\ ret.tenor = << "1", "2", "M" >>

\* C22: dateAddTenor(2024-01-15, "12M") yields the date 2025-01-10.
C22_YieldsJanuary10 ==
  TwelveMonthsFromJanuary15 =>
    ~ret.raised /\ ret.date.year = 2025 /\ ret.date.month = 1 /\ ret.date.day = 10

\* C22, amended: dateAddTenor(2024-01-15, "12M") adds 360 days to the serial
\* and yields 2025-01-09 (2024 is a leap year, so 2025-01-15 is 366 days on).
C22_YieldsJanuary9 ==
  TwelveMonthsFromJanuary15 =>
    /\ ~ret.raised
    /\ ret.date.serialNumber = ret.base.serialNumber + 360
    /\ ret.date.year = 2025 /\ ret.date.month = 1 /\ ret.date.day = 9

\* "12M" has been resolved against 2024-01-15 and a date in 2025 has come back.
C22_Witness == TwelveMonthsFromJanuary15 /\ ~ret.raised /\ ret.date.year = 2025

\* An optional minus sign, an integer and exactly one unit letter
SignedNumberAndUnit(tenorStr) ==
  \/ NumberAndUnit(tenorStr)
  \/ Len(tenorStr) >= 3 /\ Head(tenorStr) = "-" /\ NumberAndUnit(Tail(tenorStr))

\* The days a well-formed tenor moves the serial by
SignedRuleDays(tenorStr) ==
  IF ~Overnight(tenorStr) /\ Head(tenorStr) = "-" THEN 0 - RuleDays(Tail(tenorStr))
  ELSE RuleDays(tenorStr)

\* C23: dateAddTenor raises an error, which reaches the caller, for every
\* tenor string that is neither an overnight spelling nor an integer followed
\* by exactly one unit letter, and for every offset whose serial is not
\* positive; the base date is never returned in place of the error.
C23_MalformedTenorRaises ==
  (/\ ret.op = "tenor"
   /\ ret.by \in {"dateAddTenor", "Market::parseTenorStrToDate"}
   /\ \/ ~(Overnight(ret.tenor) \/ SignedNumberAndUnit(ret.tenor))
      \/ ret.base.serialNumber + SignedRuleDays(ret.tenor) <= 0)
  => ret.raised

\* dateAddTenor has resolved "1.5M" to the date 30 days after the base date.
C23_FractionReadAsOne ==
  /\ ret.op = "tenor" /\ ret.by = "dateAddTenor"
  /\ ret.tenor = << "1", ".", "5", "M" >>
  /\ ~ret.raised
  /\ ret.date.serialNumber = ret.base.serialNumber + 30

\* ============================================== serial and date, both ways
\* Largest serial of the run of serials 1, 2, ... that are turned into dates.
MaxSerial == 500

\* Serials far from the epoch: 1999-12-31, 2000-02-29, 2024-02-29, 2024-12-31
FarSerials == {36525, 36585, 45351, 45657}
RoundTripYears == {1900, 1904, 2024}

\* The days of the months of the Gregorian calendar (1900 is no leap year)
RealDate(y, m, d) == d <= monthDays(isGregorianLeap(y))[m]

\* Date date(y, m, d); Date back; back.setFromSerial(date.getSerialDate());
SerialOfDateAndBack(y, m, d) ==
  /\ ret = Void
  /\ RealDate(y, m, d) /\ ValidYMD(y, m, d)
  /\ \E date \in {DateYMD(y, m, d)} :
       ret' = [op |-> "date", from |-> date, to |-> setFromSerial(date.serialNumber)]
  /\ UNCHANGED << mkt, other, heap >>

\* Date date; date.setFromSerial(serial); Date back(date.year, date.month, date.day);
DateOfSerialAndBack(serial) ==
  /\ ret = Void
  /\ \E date \in {setFromSerial(serial)} :
       ret' = [op |-> "serial", from |-> date,
               to |-> IF ValidYMD(date.year, date.month, date.day)
                      THEN DateYMD(date.year, date.month, date.day) ELSE NoDate]
  /\ UNCHANGED << mkt, other, heap >>

InitRoundTrip ==
  /\ mkt = DefaultMarket
  /\ other = DefaultMarket
  /\ heap = EmptyMap
  /\ ret = Void
  /\ pricer = NewPricer(MaxSteps)
  /\ calls = [t \in Threads |-> NoCall]

NextRoundTrip ==
  \/ Sequential /\ \E y \in RoundTripYears, m \in 1..12, d \in 1..31 : SerialOfDateAndBack(y, m, d)
  \/ Sequential /\ \E serial \in (1..MaxSerial) \cup FarSerials : DateOfSerialAndBack(serial)
  \/ Sequential /\ Return

SpecRoundTrip == InitRoundTrip /\ [][NextRoundTrip]_vars

\* C30: for every real Gregorian date from 1900-01-01 on, setFromSerial of the
\* serial of Date(y, m, d) yields (y, m, d) again; for every serial s >= 1 the
\* serial of the (y, m, d) that setFromSerial(s) yields is s; serial 1 is
\* 1900-01-01 and serial 60 is 1900-02-29, a day that does not exist.
C30_SerialRoundTrip ==
  /\ ret.op = "date" => SameYMD(ret.to, ret.from)
  /\ ret.op = "serial" =>
       /\ ret.to.serialNumber = ret.from.serialNumber
       /\ ret.from.serialNumber = 1 =>
            ret.from.year = 1900 /\ ret.from.month = 1 /\ ret.from.day = 1
       /\ ret.from.serialNumber = 60 =>
            /\ ret.from.year = 1900 /\ ret.from.month = 2 /\ ret.from.day = 29
            /\ ~RealDate(1900, 2, 29)

\* The first day after the day that does not exist: 1900-03-01 has gone to
\* serial 61 and back.
C30_Witness ==
  /\ ret.op = "date"
  /\ ret.from.year = 1900 /\ ret.from.month = 3 /\ ret.from.day = 1
  /\ ret.from.serialNumber = 61
  /\ ret.to.serialNumber = 61 /\ ret.to.month = 3 /\ ret.to.day = 1


\* ======================================================= Pricer::PriceBond
\* Most payment dates that are kept of one call; the dates pushed after them
\* are not kept, and a year that has grown by this many stays where it is
\* (no test of the loop reads the year or the number of payment dates).
MaxCoupons == 4

BondNotional == 10 * FP
BondCouponRate == (5 * FP) \div 100

\* Date::operator< and operator<= : the serial numbers are compared
DateLess(a, b) == a.serialNumber < b.serialNumber
DateLessEq(a, b) == a.serialNumber <= b.serialNumber

\* Date valuationDate = mkt.asOf, here the day the bonds start
BondValuationDate == DateYMD(2024, 1, 15)

\* The cash flow paid at pDate, discounted to valuationDate
DiscountedFlow(yieldCurve, valuationDate, pDate, amount) ==
  LET timeToCashFlow == YearsBetween(pDate.serialNumber, valuationDate.serialNumber)
      discountRate == RateCurve_getRate(yieldCurve, pDate.serialNumber)
  IN Mul(amount, Exp(-Mul(discountRate, timeToCashFlow)))

RECURSIVE DiscountCoupons(_, _, _, _)
\* for (const auto& pDate : payment_dates) if (pDate > valuationDate) totalNpv += ...
DiscountCoupons(yieldCurve, valuationDate, payment_dates, couponAmount) ==
  IF payment_dates = << >> THEN 0
  ELSE (IF DateLess(valuationDate, Head(payment_dates))
        THEN DiscountedFlow(yieldCurve, valuationDate, Head(payment_dates), couponAmount)
        ELSE 0)
       + DiscountCoupons(yieldCurve, valuationDate, Tail(payment_dates), couponAmount)

\* PriceBond from its entry to the head of the coupon loop
PriceBondCall(bondStartDate, maturityDate, couponFreq, yieldCurve) ==
  /\ ret = Void
  /\ ret' = IF couponFreq <= 0 \/ RateCurve_isEmpty(yieldCurve)
            THEN [op |-> "PriceBond", pc |-> "returned", totalNpv |-> 0,
                  bondStartDate |-> bondStartDate, maturityDate |-> maturityDate,
                  couponFreq |-> couponFreq, yieldCurve |-> yieldCurve,
                  temp_coupon_date |-> bondStartDate, payment_dates |-> << >>]
            ELSE [op |-> "PriceBond", pc |-> "while", totalNpv |-> 0,
                  bondStartDate |-> bondStartDate, maturityDate |-> maturityDate,
                  couponFreq |-> couponFreq, yieldCurve |-> yieldCurve,
                  temp_coupon_date |-> bondStartDate, payment_dates |-> << >>]
  /\ UNCHANGED << mkt, other, heap >>

\* temp_coupon_date.month += months_to_add, and the inner loop on month > 12
AddMonths(date, months_to_add, yearCap) ==
  LET moved == WrapMonths([date EXCEPT !.month = @ + months_to_add])
  IN IF moved.year > yearCap THEN [moved EXCEPT !.year = yearCap] ELSE moved

\* One round of while (temp_coupon_date < maturityDate)
CouponLoop ==
  /\ ret.op = "PriceBond" /\ ret.pc = "while"
  /\ DateLess(ret.temp_coupon_date, ret.maturityDate)
  /\ \E next \in {AddMonths(ret.temp_coupon_date, 12 \div ret.couponFreq,
                            ret.bondStartDate.year + MaxCoupons)} :
       ret' = IF DateLessEq(next, ret.maturityDate)
              THEN [ret EXCEPT !.temp_coupon_date = next,
                               !.payment_dates = IF Len(@) < MaxCoupons
                                                 THEN Append(@, next) ELSE @]
              ELSE [ret EXCEPT !.temp_coupon_date = next, !.pc = "discount"]
  /\ UNCHANGED << mkt, other, heap >>

\* The test of the while loop fails
CouponLoopExit ==
  /\ ret.op = "PriceBond" /\ ret.pc = "while"
  /\ ~DateLess(ret.temp_coupon_date, ret.maturityDate)
  /\ ret' = [ret EXCEPT !.pc = "discount"]
  /\ UNCHANGED << mkt, other, heap >>

\* payment_dates.push_back finds no memory: std::bad_alloc leaves PriceBond
PushBackFails ==
  /\ ret.op = "PriceBond" /\ ret.pc = "while"
  /\ Len(ret.payment_dates) = MaxCoupons
  /\ ret' = [ret EXCEPT !.pc = "bad_alloc"]
  /\ UNCHANGED << mkt, other, heap >>

\* The rest of PriceBond: coupons, then principal and final coupon
PriceBondDiscount ==
  /\ ret.op = "PriceBond" /\ ret.pc = "discount"
  /\ LET couponAmount == Mul(BondCouponRate \div ret.couponFreq, BondNotional)
         coupons == DiscountCoupons(ret.yieldCurve, BondValuationDate,
                                    ret.payment_dates, couponAmount)
         atMaturity ==
           IF DateLess(BondValuationDate, ret.maturityDate)
           THEN DiscountedFlow(ret.yieldCurve, BondValuationDate, ret.maturityDate,
                               BondNotional + couponAmount)
           ELSE IF ret.maturityDate.serialNumber = BondValuationDate.serialNumber
           THEN BondNotional + couponAmount
           ELSE 0
     IN ret' = [ret EXCEPT !.pc = "returned", !.totalNpv = coupons + atMaturity]
  /\ UNCHANGED << mkt, other, heap >>

\* The caller has the price, or has caught the exception
PriceBondLeft ==
  /\ ret.op = "PriceBond" /\ ret.pc \in {"returned", "bad_alloc"}
  /\ ret' = Void
  /\ UNCHANGED << mkt, other, heap >>

BondStartDates == {DateYMD(2024, 1, 15), DateYMD(2024, 7, 15)}
\* The last one is the maturity of main.cpp: the value date with year += 2
BondMaturityDates ==
  {DateYMD(2024, 1, 15), DateYMD(2024, 7, 15), DateYMD(2025, 1, 15),
   [DateYMD(2024, 1, 15) EXCEPT !.year = @ + 2]}
CouponFreqs == {0, 1, 2, 4, 12, 24}
YieldCurves ==
  {EmptyRateCurve,
   [tenorDates |-> << DateYMD(2024, 7, 15).serialNumber >>, rates |-> << (5 * FP) \div 100 >>]}

InitBond ==
  /\ mkt = DefaultMarket
  /\ other = DefaultMarket
  /\ heap = EmptyMap
  /\ ret = Void
  /\ pricer = NewPricer(MaxSteps)
  /\ calls = [t \in Threads |-> NoCall]

NextBond ==
  \/ Sequential /\ \E s \in BondStartDates, e \in BondMaturityDates,
                      f \in CouponFreqs, c \in YieldCurves : PriceBondCall(s, e, f, c)
  \/ Sequential /\ CouponLoop
  \/ Sequential /\ CouponLoopExit
  \/ Sequential /\ PushBackFails
  \/ Sequential /\ PriceBondDiscount
  \/ Sequential /\ PriceBondLeft

\* Every step of a call that can be taken is taken: a call runs to completion
\* unless its code keeps it from completing.
SpecBond ==
  /\ InitBond /\ [][NextBond]_vars
  /\ WF_vars(Sequential /\ CouponLoop)
  /\ WF_vars(Sequential /\ CouponLoopExit)
  /\ WF_vars(Sequential /\ PriceBondDiscount)

LatticeExpiry == AsOf + 365
LatticeRates == {0, 5 * (FP \div 100)}
LatticeVols == {0, 20 * (FP \div 100), 30 * (FP \div 100)}
LatticeSpots == {9 * FP, 10 * FP, 11 * FP}
LatticeStrike == 10 * FP

LatticeTrades ==
  [kind : {"EuropeanOption", "AmericanOption"},
   optionType : {"Call", "Put"},
   strike : {LatticeStrike},
   expiryDate : {LatticeExpiry},
   underlying : StockNames,
   discountCurveName : {"USD_Yield_Curve"},
   volatilityCurveName : {"SPX_Vol_Curve"}]

LatticePricers == [nTimeSteps : 1..MaxSteps, fixedRiskFreeRate_ : {NoFixedRate}]

InitLattice ==
  /\ mkt = Market_addStockPrice(
             Market_addVolCurve(
               Market_addCurve(NewMarket(AsOf, "test"), "USD_Yield_Curve",
                               Slot("USD_Yield_Curve")),
               "SPX_Vol_Curve", Slot("SPX_Vol_Curve")),
             "AAPL", LatticeStrike)
  /\ other = DefaultMarket
  /\ heap = (Slot("USD_Yield_Curve") :> RateCurve_addRate(EmptyRateCurve, LatticeExpiry, 0))
            @@ (Slot("SPX_Vol_Curve") :> VolCurve_addVol(EmptyVolCurve, LatticeExpiry, 0))
  /\ ret = Void
  /\ pricer = NewPricer(MaxSteps)
  /\ calls = [t \in Threads |-> NoCall]

NextLattice ==
  \/ Sequential /\ ret = Void /\ \E v \in LatticeRates :
                     AddRate(mkt, "USD_Yield_Curve", LatticeExpiry, v)
  \/ Sequential /\ ret = Void /\ \E v \in LatticeVols :
                     AddVol(mkt, "SPX_Vol_Curve", LatticeExpiry, v)
  \/ Sequential /\ ret = Void /\ \E price \in LatticeSpots : AddStockPrice("AAPL", price)
  \/ Sequential /\ ret = Void /\ \E trade \in LatticeTrades, pr \in LatticePricers :
                     CallPrice(trade, pr, "defined")
  \/ Sequential /\ Return

SpecLattice == InitLattice /\ [][NextLattice]_vars

\* The call priced an option on the lattice.
PricedOnLattice == ret.op = "Price" /\ ret.out.setup

\* The market has volatility 0 and rate 0 at expiry and the spot is the strike.
FlatAtTheMoney ==
  /\ ret.out.m.sigma = 0
  /\ ret.out.m.effectiveRate = 0
  /\ ret.out.m.currentSpot = ret.trade.strike

\* C24: with volatility 0 and rate 0 at expiry, the spot equal to the strike
\* and T = 1, the lattice price of the European call and of the American call
\* is exactly 0.0, for every positive step count N.
C24_FlatCallIsWorthNothing ==
  (PricedOnLattice /\ FlatAtTheMoney /\ ret.trade.optionType = "Call")
  => /\ YearsBetween(ret.trade.expiryDate, mkt.asOf) = FP
     /\ ret.out.value = 0

\* An American call priced on MaxSteps steps in the flat market at the money:
\* u = d = 1, p = 0.5, every node at the strike.
C24_Witness ==
  /\ PricedOnLattice /\ FlatAtTheMoney
  /\ ret.trade.optionType = "Call"
  /\ ret.trade.kind = "AmericanOption"
  /\ ret.pr.nTimeSteps = MaxSteps
  /\ ret.out.m.u = FP /\ ret.out.m.d = FP /\ ret.out.m.p = FP \div 2
  /\ ret.out.value = 0


\* The spot after `ups` up-moves and `downs` down-moves from the current spot.
SpotAfter(m, ups, downs) == Mul(Mul(m.currentSpot, Pow(m.u, ups)), Pow(m.d, downs))

RECURSIVE TreeValue(_, _, _, _, _, _)
\* The value of the node reached by `ups` up-moves and `downs` down-moves in a
\* tree of N steps: the payoff at a terminal node, else valueAtNode of the
\* discounted expectation of the values of its two children.
TreeValue(m, trade, dt, N, ups, downs) ==
  IF ups + downs >= N THEN Payoff(trade, SpotAfter(m, ups, downs))
  ELSE LET V_up == TreeValue(m, trade, dt, N, ups + 1, downs)
           V_down == TreeValue(m, trade, dt, N, ups, downs + 1)
       IN ValueAtNode(trade, SpotAfter(m, ups, downs), dt * (ups + downs),
                      Mul(m.Df_, Mul(m.p, V_up) + Mul(FP - m.p, V_down)))

RECURSIVE FullLattice(_, _, _, _, _)
\* The two-dimensional lattice: the values of the nodes 0..k of step k, in an
\* array of their own, computed from the array of step k + 1, which is left
\* as it is.
FullLattice(m, trade, dt, N, k) ==
  IF k >= N THEN [i \in 0..N |-> Payoff(trade, GetSpot(m, N, i))]
  ELSE LET next == FullLattice(m, trade, dt, N, k + 1)
       IN [i \in 0..k |->
             ValueAtNode(trade, GetSpot(m, k, i), dt * k,
                         Mul(m.Df_, Mul(next[i], GetProbUp(m))
                                    + Mul(next[i + 1], GetProbDown(m))))]

\* The cells the round for node i reads and writes.
CellsRead(i) == {i, i + 1}
CellsWritten(i) == {i}

\* C28: the backward pass that updates one array of N+1 node values in
\* place, in increasing node index within each step, returns the root value
\* of the two-dimensional lattice whose steps are computed into fresh arrays:
\* when a node of step k is computed, both cells it reads still hold the
\* values of step k+1, and no index outside 0..N is read or written.
C28_InPlaceIsFullLattice ==
  PricedOnLattice
  => LET N == ret.pr.nTimeSteps
         m == ret.out.m
         dt == YearsBetween(GetExpiry(ret.trade), mkt.asOf) \div N
     IN /\ ret.out.value = FullLattice(m, ret.trade, dt, N, 0)[0]
        /\ DOMAIN m.states = 0..N
        /\ \A k \in 0..(N - 1) :
             LET above == NodeValues(ret, ret.trade, k + 1)
             IN /\ NodeLoopTo(above, m, ret.trade, dt, k, 0, k) = NodeValues(ret, ret.trade, k)
                /\ \A i \in 0..k :
                     LET before == NodeLoopTo(above, m, ret.trade, dt, k, 0, i - 1)
                     IN /\ CellsRead(i) \cup CellsWritten(i) \subseteq 0..N
                        /\ \A c \in CellsRead(i) :
                             before[c] = FullLattice(m, ret.trade, dt, N, k + 1)[c]
                        /\ \A c \in 0..(i - 1) :
                             before[c] = FullLattice(m, ret.trade, dt, N, k)[c]

\* An American put priced on MaxSteps steps with a positive volatility: at
\* step 0 the array still holds, in its cell 1, a value of step 1 that
\* differs from the root value written into cell 0.
C28_Witness ==
  /\ PricedOnLattice
  /\ ret.pr.nTimeSteps = MaxSteps
  /\ ret.trade.optionType = "Put"
  /\ ret.out.m.sigma > 0
  /\ ret.out.value > 0
  /\ ret.out.m.states[0] = ret.out.value
  /\ ret.out.m.states[1] = NodeValues(ret, ret.trade, 1)[1]
  /\ ret.out.m.states[1] # ret.out.m.states[0]
  /\ NodeValues(ret, ret.trade, 1)[0] # NodeValues(ret, ret.trade, 1)[1]


\* ============================================================ MathUtils.cpp
RECURSIVE LogSeries(_, _, _, _)
\* y + y^3/3 + y^5/5 + ..., the terms from y^k/k on
LogSeries(y2, k, power, acc) ==
  IF k > 15 \/ power = 0 THEN acc
  ELSE LET pw == Mul(power, y2)
       IN LogSeries(y2, k + 2, pw, acc + pw \div k)

\* std::log of a positive double: 2 * artanh((x - 1) / (x + 1))
Log(x) ==
  LET y == Div(x - FP, x + FP)
  IN 2 * LogSeries(Mul(y, y), 3, y, y)

RECURSIVE ErfSeries(_, _, _, _)
\* z - z^3/3 + z^5/10 - z^7/42 + ..., the terms from n on: term n is
\* (-1)^n z^(2n+1) / (n! (2n+1))
ErfSeries(minus_z2, n, term, acc) ==
  IF n > 40 \/ term = 0 THEN acc
  ELSE LET t == Mul(term, minus_z2) \div n
       IN ErfSeries(minus_z2, n + 1, t, acc + t \div (2 * n + 1))

\* std::erf: 2/sqrt(pi) times the series; 1 or -1 from |z| = 3 on, where the
\* fixed-point numbers tell no difference
Erf(z) ==
  IF z >= 3 * FP THEN FP
  ELSE IF z <= -3 * FP THEN -FP
  ELSE Mul(11284, ErfSeries(-Mul(z, z), 1, z, z))

\* normalCDF: 0.5 * (1.0 + std::erf(x * M_SQRT1_2))
normalCDF(x) == Mul(FP \div 2, FP + Erf(Mul(x, 7071)))

Max(a, b) == IF a > b THEN a ELSE b

\* blackScholesPrice after T and sigma are made non-negative.  1e-9 is below
\* the resolution of the fixed-point doubles: x <= 1e-9 holds for x <= 0.
BlackScholesFormula(optionType, S, K, T, r, sigma) ==
  IF K <= 0
  THEN (IF optionType = "Call" THEN Max(0, S - Mul(K, Exp(Mul(-r, T))))
        ELSE IF optionType = "Put" THEN Max(0, Mul(K, Exp(Mul(-r, T))) - S)
        ELSE 0)
  ELSE IF S <= 0
  THEN (IF optionType = "Put" THEN Max(0, Mul(K, Exp(Mul(-r, T)))) ELSE 0)
  ELSE IF T <= 0
  THEN (IF optionType = "Call" THEN Max(0, S - K)
        ELSE IF optionType = "Put" THEN Max(0, K - S)
        ELSE 0)
  ELSE IF sigma <= 0
  THEN (IF optionType = "Call" THEN Max(0, S - Mul(K, Exp(Mul(-r, T))))
        ELSE IF optionType = "Put" THEN Max(0, Mul(K, Exp(Mul(-r, T))) - S)
        ELSE 0)
  ELSE LET d1 == Div(Log(Div(S, K)) + Mul(r + Mul(FP \div 2, Mul(sigma, sigma)), T),
                     Mul(sigma, Sqrt(T)))
           d2 == d1 - Mul(sigma, Sqrt(T))
       IN IF optionType = "Call"
          THEN Mul(S, normalCDF(d1)) - Mul(Mul(K, Exp(Mul(-r, T))), normalCDF(d2))
          ELSE IF optionType = "Put"
          THEN Mul(Mul(K, Exp(Mul(-r, T))), normalCDF(-d2)) - Mul(S, normalCDF(-d1))
          ELSE NoValue

\* blackScholesPrice; NoValue where it throws std::invalid_argument
blackScholesPrice(optionType, S, K, T, r, sigma) ==
  BlackScholesFormula(optionType, S, K, IF T < 0 THEN 0 ELSE T, r, Abs(sigma))

\* ------------------------------- the tree price against Black-Scholes
\* Pricer* treePricer = new CRRBinomialTreePricer(50)
TreeSteps == 50

ConvergeSpot == 100 * FP
ConvergeVol == 20 * (FP \div 100)
ConvergeRate == 5 * (FP \div 100)

\* European options on AAPL that expire a year after the as-of date.
ConvergeTrades ==
  [kind : {"EuropeanOption"},
   optionType : {"Call", "Put"},
   strike : {90 * FP, 100 * FP, 110 * FP},
   expiryDate : {AsOf + 365},
   underlying : StockNames,
   discountCurveName : {"USD_Yield_Curve"},
   volatilityCurveName : {"SPX_Vol_Curve"}]

InitConverge ==
  \E one \in {QuotedMarket("one", ConvergeSpot, ConvergeVol, ConvergeRate, EmptyMap)} :
    /\ mkt = one.market
    /\ other = DefaultMarket
    /\ heap = one.heap
    /\ ret = Void
    /\ pricer = NewPricer(TreeSteps)
    /\ calls = [t \in Threads |-> NoCall]

\* The caller has the tree price of its option and computes the
\* Black-Scholes price from the spot, the strike, T and the rate and the
\* volatility of the market at expiry.
CompareBlackScholes(t) ==
  /\ calls[t].pc = "done"
  /\ \E trade \in {calls[t].trade} :
       ret' = [op |-> "blackScholesPrice", trade |-> trade, steps |-> pricer.nTimeSteps,
               treePrice |-> calls[t].value,
               blackScholes |->
                 blackScholesPrice(
                   trade.optionType,
                   Market_getStockPrice(MarketOf(t), trade.underlying),
                   trade.strike,
                   YearsBetween(GetExpiry(trade), MarketOf(t).asOf),
                   RateCurve_getRate(MarketH_getCurve(MarketOf(t), heap, "USD_Yield_Curve"),
                                     GetExpiry(trade)),
                   VolCurve_getVol(MarketH_getVolCurve(MarketOf(t), heap, "SPX_Vol_Curve"),
                                   GetExpiry(trade)))]
  /\ calls' = [calls EXCEPT ![t] = NoCall]
  /\ UNCHANGED << mkt, other, heap, pricer >>

\* The comparison is printed; the next option follows.
NextOption ==
  /\ ret # Void
  /\ ret' = Void
  /\ UNCHANGED << mkt, other, heap, pricer, calls >>

NextConverge ==
  \/ ret = Void /\ \E trade \in ConvergeTrades : Begin(1, trade)
  \/ CallModelSetup(1)
  \/ FillLeaves(1)
  \/ BackwardStep(1)
  \/ ReturnRoot(1)
  \/ CompareBlackScholes(1)
  \/ NextOption

SpecConverge == InitConverge /\ [][NextConverge]_vars

\* The European call of the scenario has been priced: sigma = 0.2, r = 0.05,
\* spot 100, strike 100, T = 1, N = 50.
ScenarioCompared ==
  /\ ret.op = "blackScholesPrice"
  /\ ret.trade.optionType = "Call"
  /\ ret.trade.strike = 100 * FP
  /\ Market_getStockPrice(mkt, ret.trade.underlying) = 100 * FP
  /\ YearsBetween(GetExpiry(ret.trade), mkt.asOf) = FP
  /\ ret.steps = 50
  /\ pricer.u > FP /\ pricer.d < FP

Finite(x) == [is |-> "finite", v |-> x]
Infinity(sign) == [is |-> "inf", v |-> sign]
NaN == [is |-> "nan", v |-> 0]

Sign(x) == IF x < 0 THEN -1 ELSE IF x > 0 THEN 1 ELSE 0

\* -a
DNeg(a) == IF a.is = "nan" THEN NaN ELSE [a EXCEPT !.v = -@]

\* a * b: NaN for a NaN factor and for infinity * 0
DMul(a, b) ==
  IF a.is = "nan" \/ b.is = "nan" THEN NaN
  ELSE IF a.is = "inf" \/ b.is = "inf"
  THEN (IF a.v = 0 \/ b.v = 0 THEN NaN ELSE Infinity(Sign(a.v) * Sign(b.v)))
  ELSE Finite(Mul(a.v, b.v))

\* a - b: NaN for a NaN operand and for the difference of equal infinities
DSub(a, b) ==
  IF a.is = "nan" \/ b.is = "nan" THEN NaN
  ELSE IF a.is = "inf" THEN (IF b.is = "inf" /\ b.v = a.v THEN NaN ELSE a)
  ELSE IF b.is = "inf" THEN Infinity(-b.v)
  ELSE Finite(a.v - b.v)

\* a / b: NaN for a NaN operand, for 0 / 0 and for infinity / infinity
DDiv(a, b) ==
  IF a.is = "nan" \/ b.is = "nan" THEN NaN
  ELSE IF a.is = "inf" THEN (IF b.is = "inf" THEN NaN
                             ELSE Infinity(a.v * (IF b.v < 0 THEN -1 ELSE 1)))
  ELSE IF b.is = "inf" THEN Finite(0)
  ELSE IF b.v = 0 THEN (IF a.v = 0 THEN NaN ELSE Infinity(Sign(a.v)))
  ELSE Finite(Div(a.v, b.v))

\* std::exp: infinity above 709.78, 0 below -745.13
DExp(a) ==
  IF a.is = "nan" THEN NaN
  ELSE IF a.is = "inf" THEN (IF a.v > 0 THEN a ELSE Finite(0))
  ELSE IF a.v > 709 * FP + 7827 THEN Infinity(1)
  ELSE IF a.v < -(745 * FP + 1332) THEN Finite(0)
  ELSE Finite(Exp(a.v))

\* std::sqrt: NaN for a negative number
DSqrt(a) ==
  IF a.is = "nan" THEN NaN
  ELSE IF a.is = "inf" THEN (IF a.v > 0 THEN a ELSE NaN)
  ELSE IF a.v < 0 THEN NaN
  ELSE Finite(Sqrt(a.v))

\* std::abs
DAbs(a) == IF a.is = "nan" THEN NaN ELSE [a EXCEPT !.v = Abs(@)]

\* a < b: false when an operand is a NaN
DLess(a, b) ==
  /\ a.is # "nan" /\ b.is # "nan"
  /\ IF a.is = "inf" THEN a.v < 0 /\ ~(b.is = "inf" /\ b.v < 0)
     ELSE IF b.is = "inf" THEN b.v > 0
     ELSE a.v < b.v

\* std::abs(x) < 1e-14, a tolerance below the resolution of the fixed-point
\* doubles: it holds for 0 only
DTiny(a) == DLess(DAbs(a), Finite(1))

\* CRRBinomialTreePricer::ModelSetup(double S0, double sigma, double r,
\* double dt): the members it leaves, and whether it divided by u - d
CRR_ModelSetup(S0, sigma, r, dt) ==
  LET sqrt_dt == DSqrt(dt)
      u == DExp(DMul(sigma, sqrt_dt))
      d == DExp(DMul(DNeg(sigma), sqrt_dt))
      degenerate == DTiny(DSub(u, d))
      p0 == IF degenerate
            THEN (IF DTiny(r) /\ DTiny(sigma) THEN Finite(FP \div 2)
                  ELSE IF ~DLess(r, Finite(0)) /\ r.is # "nan" THEN Finite(FP)
                  ELSE Finite(0))
            ELSE DDiv(DSub(DExp(DMul(r, dt)), d), DSub(u, d))
      p == IF DLess(p0, Finite(0)) THEN Finite(0)
           ELSE IF DLess(Finite(FP), p0) THEN Finite(FP)
           ELSE p0
  IN [dT_ |-> dt, currentSpot |-> S0, u |-> u, d |-> d, p |-> p,
      Df_ |-> DExp(DMul(DNeg(r), dt)),
      divided |-> ~degenerate, divisor |-> DSub(u, d)]

\* The spots, volatilities, rates and step sizes the setup is called with: the
\* products sigma * sqrt(dt) and r * dt are at most 0.3 in size, where the
\* fixed-point numbers hold exp of them, or beyond the range of std::exp.
SetupSpots == {Finite(10 * FP), Finite(100 * FP)}
SetupVols ==
  {Finite(-2000 * FP), Finite(-20 * (FP \div 100)), Finite(0), Finite(20 * (FP \div 100)),
   Finite(2000 * FP)}
SetupRates == {Finite(-5 * (FP \div 100)), Finite(0), Finite(5 * (FP \div 100)), Finite(4000 * FP)}
SetupSteps == {Finite(-(FP \div 2)), Finite(0), Finite(FP \div 4), Finite(FP \div 2), Finite(FP)}

\* pricer.ModelSetup(S0, sigma, r, dt)
SetUpLattice(S0, sigma, r, dt) ==
  /\ ret = Void
  /\ ret' = [op |-> "ModelSetup", sigma |-> sigma, r |-> r, dt |-> dt,
             m |-> CRR_ModelSetup(S0, sigma, r, dt)]
  /\ UNCHANGED << mkt, other, heap >>

InitSetup ==
  /\ mkt = DefaultMarket
  /\ other = DefaultMarket
  /\ heap = EmptyMap
  /\ ret = Void
  /\ pricer = NewPricer(MaxSteps)
  /\ calls = [t \in Threads |-> NoCall]

NextSetup ==
  \/ Sequential /\ \E S0 \in SetupSpots, sigma \in SetupVols, r \in SetupRates,
                      dt \in SetupSteps : SetUpLattice(S0, sigma, r, dt)
  \/ Sequential /\ Return

SpecSetup == InitSetup /\ [][NextSetup]_vars

\* C27: after every lattice parameter setup, for any spot, volatility, rate
\* and step size (zero or negative volatility and u equal to d included), the
\* risk-neutral probability p used in the backward pass satisfies
\* 0 <= p <= 1, and no division by a difference |u - d| below the tolerance
\* is performed.
C27_ProbabilityWithinUnitInterval ==
  ret.op = "ModelSetup"
  => /\ ret.m.p.is = "finite" /\ 0 <= ret.m.p.v /\ ret.m.p.v <= FP
     /\ ret.m.divided => ~DTiny(ret.m.divisor)

\* The setup ran with a positive step size and left a p that is no number:
\* exp(sigma * sqrt(dt)) is 0 and exp(-sigma * sqrt(dt)) is infinite, p is
\* infinity / infinity, and neither p < 0.0 nor p > 1.0 holds for it.
C27_ProbabilityIsNaN ==
  /\ ret.op = "ModelSetup"
  /\ DLess(Finite(0), ret.dt)
  /\ ret.m.u = Finite(0) /\ ret.m.d = Infinity(1)
  /\ ret.m.divided
  /\ ret.m.p = NaN

\* With the volatilities, rates and step sizes for which std::exp stays in
\* range, p is within [0, 1], the degenerate branch is taken exactly when
\* u = d, and the division is by a difference that is not tiny.
C27_InRangeHolds ==
  (/\ ret.op = "ModelSetup"
   /\ Abs(ret.sigma.v) <= FP /\ Abs(ret.r.v) <= FP /\ ret.dt.v >= 0)
  => /\ ret.m.p.is = "finite" /\ 0 <= ret.m.p.v /\ ret.m.p.v <= FP
     /\ ret.m.divided <=> ret.m.u # ret.m.d

====
